---------------------------- MODULE Spec2Model ----------------------------
(***************************************************************************)
(* Model of the scoring and rule-matching engine of the code review        *)
(* system: analyze_code (analyzer.py) and analyze_command with its helpers *)
(* _looks_like_python, _analyze_python_syntax and _generate_corrected_code *)
(* (command_analyzer.py).                                                  *)
(*                                                                         *)
(* Text is a sequence of characters, each its code point, so that          *)
(* substring tests, str.strip/lower/split and the regular expressions of   *)
(* the pattern tables are computed on the characters, as the code computes *)
(* them.  A text written out is followed by a comment that spells it.      *)
(***************************************************************************)
EXTENDS Integers, Sequences, FiniteSets, TLC

VARIABLES
    pc,             \* position of the running call ("idle" between calls)
    command,        \* analyze_command: the argument
    issues,         \* local list `issues` of the running call
    suggestions,    \* local list `suggestions` of the running call
    risk_level,     \* analyze_command: local `risk_level`
    idx,            \* index of the running for-loop
    result,         \* value returned by the call that finished last
    last,           \* value returned by the previous analyze_command call
    filepath,       \* analyze_code: the analysed file (its observable facts)
    score,          \* analyze_code: local `score`
    code            \* analyze_code: local `code` ("unbound" until read)

vars == <<pc, command, issues, suggestions, risk_level, idx, result, last,
          filepath, score, code>>

-----------------------------------------------------------------------------
(* Characters.  A character is its code point, ord(c), in 0..1114111, and  *)
(* a text is a sequence of characters.  The tables below are those of the  *)
(* Unicode database of the interpreter (CPython 3.11, Unicode 14.0.0), as  *)
(* str.isspace, str.islower, str.isupper, str.istitle, str.lower and the   *)
(* classes \s and \w of re report them.  A run <<lo, hi, step>> stands for *)
(* the characters lo, lo + step, ..., hi; the runs of a table are disjoint *)
(* and in increasing order.                                                *)

\* the characters c with c.isspace(): what strip() and split() drop and what
\* \s matches
Whitespace ==
    {9, 10, 11, 12, 13, 28, 29, 30, 31, 32, 133, 160, 5760, 8192, 8193,
     8194, 8195, 8196, 8197, 8198, 8199, 8200, 8201, 8202, 8232, 8233, 8239, 8287, 12288}

\* the characters c with c.islower()
LowerRuns == <<
    <<97, 122, 1>>, <<170, 170, 1>>, <<181, 181, 1>>, <<186, 186, 1>>, <<223, 246, 1>>,
    <<248, 255, 1>>, <<257, 311, 2>>, <<312, 328, 2>>, <<329, 375, 2>>, <<378, 382, 2>>,
    <<383, 384, 1>>, <<387, 387, 1>>, <<389, 389, 1>>, <<392, 392, 1>>, <<396, 397, 1>>,
    <<402, 402, 1>>, <<405, 405, 1>>, <<409, 411, 1>>, <<414, 414, 1>>, <<417, 421, 2>>,
    <<424, 424, 1>>, <<426, 427, 1>>, <<429, 429, 1>>, <<432, 432, 1>>, <<436, 436, 1>>,
    <<438, 438, 1>>, <<441, 442, 1>>, <<445, 447, 1>>, <<454, 454, 1>>, <<457, 457, 1>>,
    <<460, 476, 2>>, <<477, 495, 2>>, <<496, 496, 1>>, <<499, 499, 1>>, <<501, 501, 1>>,
    <<505, 563, 2>>, <<564, 569, 1>>, <<572, 572, 1>>, <<575, 576, 1>>, <<578, 578, 1>>,
    <<583, 591, 2>>, <<592, 659, 1>>, <<661, 696, 1>>, <<704, 705, 1>>, <<736, 740, 1>>,
    <<837, 837, 1>>, <<881, 881, 1>>, <<883, 883, 1>>, <<887, 887, 1>>, <<890, 893, 1>>,
    <<912, 912, 1>>, <<940, 974, 1>>, <<976, 977, 1>>, <<981, 983, 1>>, <<985, 1007, 2>>,
    <<1008, 1011, 1>>, <<1013, 1013, 1>>, <<1016, 1016, 1>>, <<1019, 1020, 1>>, <<1072, 1119, 1>>,
    <<1121, 1153, 2>>, <<1163, 1215, 2>>, <<1218, 1230, 2>>, <<1231, 1327, 2>>, <<1376, 1416, 1>>,
    <<4304, 4346, 1>>, <<4349, 4351, 1>>, <<5112, 5117, 1>>, <<7296, 7304, 1>>, <<7424, 7615, 1>>,
    <<7681, 7829, 2>>, <<7830, 7837, 1>>, <<7839, 7935, 2>>, <<7936, 7943, 1>>, <<7952, 7957, 1>>,
    <<7968, 7975, 1>>, <<7984, 7991, 1>>, <<8000, 8005, 1>>, <<8016, 8023, 1>>, <<8032, 8039, 1>>,
    <<8048, 8061, 1>>, <<8064, 8071, 1>>, <<8080, 8087, 1>>, <<8096, 8103, 1>>, <<8112, 8116, 1>>,
    <<8118, 8119, 1>>, <<8126, 8126, 1>>, <<8130, 8132, 1>>, <<8134, 8135, 1>>, <<8144, 8147, 1>>,
    <<8150, 8151, 1>>, <<8160, 8167, 1>>, <<8178, 8180, 1>>, <<8182, 8183, 1>>, <<8305, 8305, 1>>,
    <<8319, 8319, 1>>, <<8336, 8348, 1>>, <<8458, 8458, 1>>, <<8462, 8463, 1>>, <<8467, 8467, 1>>,
    <<8495, 8495, 1>>, <<8500, 8500, 1>>, <<8505, 8505, 1>>, <<8508, 8509, 1>>, <<8518, 8521, 1>>,
    <<8526, 8526, 1>>, <<8560, 8575, 1>>, <<8580, 8580, 1>>, <<9424, 9449, 1>>, <<11312, 11359, 1>>,
    <<11361, 11361, 1>>, <<11365, 11366, 1>>, <<11368, 11372, 2>>, <<11377, 11377, 1>>, <<11379, 11380, 1>>,
    <<11382, 11389, 1>>, <<11393, 11491, 2>>, <<11492, 11492, 1>>, <<11500, 11500, 1>>, <<11502, 11502, 1>>,
    <<11507, 11507, 1>>, <<11520, 11557, 1>>, <<11559, 11559, 1>>, <<11565, 11565, 1>>, <<42561, 42605, 2>>,
    <<42625, 42651, 2>>, <<42652, 42653, 1>>, <<42787, 42799, 2>>, <<42800, 42801, 1>>, <<42803, 42863, 2>>,
    <<42864, 42872, 1>>, <<42874, 42874, 1>>, <<42876, 42876, 1>>, <<42879, 42887, 2>>, <<42892, 42892, 1>>,
    <<42894, 42894, 1>>, <<42897, 42897, 1>>, <<42899, 42901, 1>>, <<42903, 42921, 2>>, <<42927, 42927, 1>>,
    <<42933, 42947, 2>>, <<42952, 42952, 1>>, <<42954, 42954, 1>>, <<42961, 42969, 2>>, <<42998, 42998, 1>>,
    <<43000, 43002, 1>>, <<43824, 43866, 1>>, <<43868, 43880, 1>>, <<43888, 43967, 1>>, <<64256, 64262, 1>>,
    <<64275, 64279, 1>>, <<65345, 65370, 1>>, <<66600, 66639, 1>>, <<66776, 66811, 1>>, <<66967, 66977, 1>>,
    <<66979, 66993, 1>>, <<66995, 67001, 1>>, <<67003, 67004, 1>>, <<67456, 67456, 1>>, <<67459, 67461, 1>>,
    <<67463, 67504, 1>>, <<67506, 67514, 1>>, <<68800, 68850, 1>>, <<71872, 71903, 1>>, <<93792, 93823, 1>>,
    <<119834, 119859, 1>>, <<119886, 119892, 1>>, <<119894, 119911, 1>>, <<119938, 119963, 1>>, <<119990, 119993, 1>>,
    <<119995, 119995, 1>>, <<119997, 120003, 1>>, <<120005, 120015, 1>>, <<120042, 120067, 1>>, <<120094, 120119, 1>>,
    <<120146, 120171, 1>>, <<120198, 120223, 1>>, <<120250, 120275, 1>>, <<120302, 120327, 1>>, <<120354, 120379, 1>>,
    <<120406, 120431, 1>>, <<120458, 120485, 1>>, <<120514, 120538, 1>>, <<120540, 120545, 1>>, <<120572, 120596, 1>>,
    <<120598, 120603, 1>>, <<120630, 120654, 1>>, <<120656, 120661, 1>>, <<120688, 120712, 1>>, <<120714, 120719, 1>>,
    <<120746, 120770, 1>>, <<120772, 120777, 1>>, <<120779, 120779, 1>>, <<122624, 122633, 1>>, <<122635, 122654, 1>>,
    <<125218, 125251, 1>>
    >>

\* the characters c with c.isupper()
UpperRuns == <<
    <<65, 90, 1>>, <<192, 214, 1>>, <<216, 222, 1>>, <<256, 310, 2>>, <<313, 327, 2>>,
    <<330, 376, 2>>, <<377, 381, 2>>, <<385, 386, 1>>, <<388, 388, 1>>, <<390, 391, 1>>,
    <<393, 395, 1>>, <<398, 401, 1>>, <<403, 404, 1>>, <<406, 408, 1>>, <<412, 413, 1>>,
    <<415, 416, 1>>, <<418, 422, 2>>, <<423, 423, 1>>, <<425, 425, 1>>, <<428, 428, 1>>,
    <<430, 431, 1>>, <<433, 435, 1>>, <<437, 437, 1>>, <<439, 440, 1>>, <<444, 444, 1>>,
    <<452, 452, 1>>, <<455, 455, 1>>, <<458, 458, 1>>, <<461, 475, 2>>, <<478, 494, 2>>,
    <<497, 497, 1>>, <<500, 500, 1>>, <<502, 504, 1>>, <<506, 562, 2>>, <<570, 571, 1>>,
    <<573, 574, 1>>, <<577, 577, 1>>, <<579, 582, 1>>, <<584, 590, 2>>, <<880, 880, 1>>,
    <<882, 882, 1>>, <<886, 886, 1>>, <<895, 895, 1>>, <<902, 902, 1>>, <<904, 906, 1>>,
    <<908, 908, 1>>, <<910, 911, 1>>, <<913, 929, 1>>, <<931, 939, 1>>, <<975, 975, 1>>,
    <<978, 980, 1>>, <<984, 1006, 2>>, <<1012, 1012, 1>>, <<1015, 1015, 1>>, <<1017, 1018, 1>>,
    <<1021, 1071, 1>>, <<1120, 1152, 2>>, <<1162, 1216, 2>>, <<1217, 1229, 2>>, <<1232, 1326, 2>>,
    <<1329, 1366, 1>>, <<4256, 4293, 1>>, <<4295, 4295, 1>>, <<4301, 4301, 1>>, <<5024, 5109, 1>>,
    <<7312, 7354, 1>>, <<7357, 7359, 1>>, <<7680, 7828, 2>>, <<7838, 7934, 2>>, <<7944, 7951, 1>>,
    <<7960, 7965, 1>>, <<7976, 7983, 1>>, <<7992, 7999, 1>>, <<8008, 8013, 1>>, <<8025, 8031, 2>>,
    <<8040, 8047, 1>>, <<8120, 8123, 1>>, <<8136, 8139, 1>>, <<8152, 8155, 1>>, <<8168, 8172, 1>>,
    <<8184, 8187, 1>>, <<8450, 8450, 1>>, <<8455, 8455, 1>>, <<8459, 8461, 1>>, <<8464, 8466, 1>>,
    <<8469, 8469, 1>>, <<8473, 8477, 1>>, <<8484, 8490, 2>>, <<8491, 8493, 1>>, <<8496, 8499, 1>>,
    <<8510, 8511, 1>>, <<8517, 8517, 1>>, <<8544, 8559, 1>>, <<8579, 8579, 1>>, <<9398, 9423, 1>>,
    <<11264, 11311, 1>>, <<11360, 11360, 1>>, <<11362, 11364, 1>>, <<11367, 11373, 2>>, <<11374, 11376, 1>>,
    <<11378, 11378, 1>>, <<11381, 11381, 1>>, <<11390, 11392, 1>>, <<11394, 11490, 2>>, <<11499, 11499, 1>>,
    <<11501, 11501, 1>>, <<11506, 11506, 1>>, <<42560, 42604, 2>>, <<42624, 42650, 2>>, <<42786, 42798, 2>>,
    <<42802, 42862, 2>>, <<42873, 42877, 2>>, <<42878, 42886, 2>>, <<42891, 42891, 1>>, <<42893, 42893, 1>>,
    <<42896, 42896, 1>>, <<42898, 42898, 1>>, <<42902, 42922, 2>>, <<42923, 42926, 1>>, <<42928, 42932, 1>>,
    <<42934, 42948, 2>>, <<42949, 42951, 1>>, <<42953, 42953, 1>>, <<42960, 42960, 1>>, <<42966, 42966, 1>>,
    <<42968, 42968, 1>>, <<42997, 42997, 1>>, <<65313, 65338, 1>>, <<66560, 66599, 1>>, <<66736, 66771, 1>>,
    <<66928, 66938, 1>>, <<66940, 66954, 1>>, <<66956, 66962, 1>>, <<66964, 66965, 1>>, <<68736, 68786, 1>>,
    <<71840, 71871, 1>>, <<93760, 93791, 1>>, <<119808, 119833, 1>>, <<119860, 119885, 1>>, <<119912, 119937, 1>>,
    <<119964, 119964, 1>>, <<119966, 119967, 1>>, <<119970, 119970, 1>>, <<119973, 119974, 1>>, <<119977, 119980, 1>>,
    <<119982, 119989, 1>>, <<120016, 120041, 1>>, <<120068, 120069, 1>>, <<120071, 120074, 1>>, <<120077, 120084, 1>>,
    <<120086, 120092, 1>>, <<120120, 120121, 1>>, <<120123, 120126, 1>>, <<120128, 120132, 1>>, <<120134, 120134, 1>>,
    <<120138, 120144, 1>>, <<120172, 120197, 1>>, <<120224, 120249, 1>>, <<120276, 120301, 1>>, <<120328, 120353, 1>>,
    <<120380, 120405, 1>>, <<120432, 120457, 1>>, <<120488, 120512, 1>>, <<120546, 120570, 1>>, <<120604, 120628, 1>>,
    <<120662, 120686, 1>>, <<120720, 120744, 1>>, <<120778, 120778, 1>>, <<125184, 125217, 1>>, <<127280, 127305, 1>>,
    <<127312, 127337, 1>>, <<127344, 127369, 1>>
    >>

\* the titlecase characters: c.istitle() without c.isupper()
TitleRuns == <<
    <<453, 453, 1>>, <<456, 456, 1>>, <<459, 459, 1>>, <<498, 498, 1>>, <<8072, 8079, 1>>,
    <<8088, 8095, 1>>, <<8104, 8111, 1>>, <<8124, 8124, 1>>, <<8140, 8140, 1>>, <<8188, 8188, 1>>
    >>

\* the characters \w matches: c.isalnum() or c == '_'
WordRuns == <<
    <<48, 57, 1>>, <<65, 90, 1>>, <<95, 95, 1>>, <<97, 122, 1>>, <<170, 170, 1>>,
    <<178, 179, 1>>, <<181, 181, 1>>, <<185, 186, 1>>, <<188, 190, 1>>, <<192, 214, 1>>,
    <<216, 246, 1>>, <<248, 705, 1>>, <<710, 721, 1>>, <<736, 740, 1>>, <<748, 748, 1>>,
    <<750, 750, 1>>, <<880, 884, 1>>, <<886, 887, 1>>, <<890, 893, 1>>, <<895, 895, 1>>,
    <<902, 902, 1>>, <<904, 906, 1>>, <<908, 908, 1>>, <<910, 929, 1>>, <<931, 1013, 1>>,
    <<1015, 1153, 1>>, <<1162, 1327, 1>>, <<1329, 1366, 1>>, <<1369, 1369, 1>>, <<1376, 1416, 1>>,
    <<1488, 1514, 1>>, <<1519, 1522, 1>>, <<1568, 1610, 1>>, <<1632, 1641, 1>>, <<1646, 1647, 1>>,
    <<1649, 1747, 1>>, <<1749, 1749, 1>>, <<1765, 1766, 1>>, <<1774, 1788, 1>>, <<1791, 1791, 1>>,
    <<1808, 1808, 1>>, <<1810, 1839, 1>>, <<1869, 1957, 1>>, <<1969, 1969, 1>>, <<1984, 2026, 1>>,
    <<2036, 2037, 1>>, <<2042, 2042, 1>>, <<2048, 2069, 1>>, <<2074, 2074, 1>>, <<2084, 2084, 1>>,
    <<2088, 2088, 1>>, <<2112, 2136, 1>>, <<2144, 2154, 1>>, <<2160, 2183, 1>>, <<2185, 2190, 1>>,
    <<2208, 2249, 1>>, <<2308, 2361, 1>>, <<2365, 2365, 1>>, <<2384, 2384, 1>>, <<2392, 2401, 1>>,
    <<2406, 2415, 1>>, <<2417, 2432, 1>>, <<2437, 2444, 1>>, <<2447, 2448, 1>>, <<2451, 2472, 1>>,
    <<2474, 2480, 1>>, <<2482, 2482, 1>>, <<2486, 2489, 1>>, <<2493, 2493, 1>>, <<2510, 2510, 1>>,
    <<2524, 2525, 1>>, <<2527, 2529, 1>>, <<2534, 2545, 1>>, <<2548, 2553, 1>>, <<2556, 2556, 1>>,
    <<2565, 2570, 1>>, <<2575, 2576, 1>>, <<2579, 2600, 1>>, <<2602, 2608, 1>>, <<2610, 2611, 1>>,
    <<2613, 2614, 1>>, <<2616, 2617, 1>>, <<2649, 2652, 1>>, <<2654, 2654, 1>>, <<2662, 2671, 1>>,
    <<2674, 2676, 1>>, <<2693, 2701, 1>>, <<2703, 2705, 1>>, <<2707, 2728, 1>>, <<2730, 2736, 1>>,
    <<2738, 2739, 1>>, <<2741, 2745, 1>>, <<2749, 2749, 1>>, <<2768, 2768, 1>>, <<2784, 2785, 1>>,
    <<2790, 2799, 1>>, <<2809, 2809, 1>>, <<2821, 2828, 1>>, <<2831, 2832, 1>>, <<2835, 2856, 1>>,
    <<2858, 2864, 1>>, <<2866, 2867, 1>>, <<2869, 2873, 1>>, <<2877, 2877, 1>>, <<2908, 2909, 1>>,
    <<2911, 2913, 1>>, <<2918, 2927, 1>>, <<2929, 2935, 1>>, <<2947, 2947, 1>>, <<2949, 2954, 1>>,
    <<2958, 2960, 1>>, <<2962, 2965, 1>>, <<2969, 2970, 1>>, <<2972, 2972, 1>>, <<2974, 2975, 1>>,
    <<2979, 2980, 1>>, <<2984, 2986, 1>>, <<2990, 3001, 1>>, <<3024, 3024, 1>>, <<3046, 3058, 1>>,
    <<3077, 3084, 1>>, <<3086, 3088, 1>>, <<3090, 3112, 1>>, <<3114, 3129, 1>>, <<3133, 3133, 1>>,
    <<3160, 3162, 1>>, <<3165, 3165, 1>>, <<3168, 3169, 1>>, <<3174, 3183, 1>>, <<3192, 3198, 1>>,
    <<3200, 3200, 1>>, <<3205, 3212, 1>>, <<3214, 3216, 1>>, <<3218, 3240, 1>>, <<3242, 3251, 1>>,
    <<3253, 3257, 1>>, <<3261, 3261, 1>>, <<3293, 3294, 1>>, <<3296, 3297, 1>>, <<3302, 3311, 1>>,
    <<3313, 3314, 1>>, <<3332, 3340, 1>>, <<3342, 3344, 1>>, <<3346, 3386, 1>>, <<3389, 3389, 1>>,
    <<3406, 3406, 1>>, <<3412, 3414, 1>>, <<3416, 3425, 1>>, <<3430, 3448, 1>>, <<3450, 3455, 1>>,
    <<3461, 3478, 1>>, <<3482, 3505, 1>>, <<3507, 3515, 1>>, <<3517, 3517, 1>>, <<3520, 3526, 1>>,
    <<3558, 3567, 1>>, <<3585, 3632, 1>>, <<3634, 3635, 1>>, <<3648, 3654, 1>>, <<3664, 3673, 1>>,
    <<3713, 3714, 1>>, <<3716, 3716, 1>>, <<3718, 3722, 1>>, <<3724, 3747, 1>>, <<3749, 3749, 1>>,
    <<3751, 3760, 1>>, <<3762, 3763, 1>>, <<3773, 3773, 1>>, <<3776, 3780, 1>>, <<3782, 3782, 1>>,
    <<3792, 3801, 1>>, <<3804, 3807, 1>>, <<3840, 3840, 1>>, <<3872, 3891, 1>>, <<3904, 3911, 1>>,
    <<3913, 3948, 1>>, <<3976, 3980, 1>>, <<4096, 4138, 1>>, <<4159, 4169, 1>>, <<4176, 4181, 1>>,
    <<4186, 4189, 1>>, <<4193, 4193, 1>>, <<4197, 4198, 1>>, <<4206, 4208, 1>>, <<4213, 4225, 1>>,
    <<4238, 4238, 1>>, <<4240, 4249, 1>>, <<4256, 4293, 1>>, <<4295, 4295, 1>>, <<4301, 4301, 1>>,
    <<4304, 4346, 1>>, <<4348, 4680, 1>>, <<4682, 4685, 1>>, <<4688, 4694, 1>>, <<4696, 4696, 1>>,
    <<4698, 4701, 1>>, <<4704, 4744, 1>>, <<4746, 4749, 1>>, <<4752, 4784, 1>>, <<4786, 4789, 1>>,
    <<4792, 4798, 1>>, <<4800, 4800, 1>>, <<4802, 4805, 1>>, <<4808, 4822, 1>>, <<4824, 4880, 1>>,
    <<4882, 4885, 1>>, <<4888, 4954, 1>>, <<4969, 4988, 1>>, <<4992, 5007, 1>>, <<5024, 5109, 1>>,
    <<5112, 5117, 1>>, <<5121, 5740, 1>>, <<5743, 5759, 1>>, <<5761, 5786, 1>>, <<5792, 5866, 1>>,
    <<5870, 5880, 1>>, <<5888, 5905, 1>>, <<5919, 5937, 1>>, <<5952, 5969, 1>>, <<5984, 5996, 1>>,
    <<5998, 6000, 1>>, <<6016, 6067, 1>>, <<6103, 6103, 1>>, <<6108, 6108, 1>>, <<6112, 6121, 1>>,
    <<6128, 6137, 1>>, <<6160, 6169, 1>>, <<6176, 6264, 1>>, <<6272, 6276, 1>>, <<6279, 6312, 1>>,
    <<6314, 6314, 1>>, <<6320, 6389, 1>>, <<6400, 6430, 1>>, <<6470, 6509, 1>>, <<6512, 6516, 1>>,
    <<6528, 6571, 1>>, <<6576, 6601, 1>>, <<6608, 6618, 1>>, <<6656, 6678, 1>>, <<6688, 6740, 1>>,
    <<6784, 6793, 1>>, <<6800, 6809, 1>>, <<6823, 6823, 1>>, <<6917, 6963, 1>>, <<6981, 6988, 1>>,
    <<6992, 7001, 1>>, <<7043, 7072, 1>>, <<7086, 7141, 1>>, <<7168, 7203, 1>>, <<7232, 7241, 1>>,
    <<7245, 7293, 1>>, <<7296, 7304, 1>>, <<7312, 7354, 1>>, <<7357, 7359, 1>>, <<7401, 7404, 1>>,
    <<7406, 7411, 1>>, <<7413, 7414, 1>>, <<7418, 7418, 1>>, <<7424, 7615, 1>>, <<7680, 7957, 1>>,
    <<7960, 7965, 1>>, <<7968, 8005, 1>>, <<8008, 8013, 1>>, <<8016, 8023, 1>>, <<8025, 8031, 2>>,
    <<8032, 8061, 1>>, <<8064, 8116, 1>>, <<8118, 8124, 1>>, <<8126, 8126, 1>>, <<8130, 8132, 1>>,
    <<8134, 8140, 1>>, <<8144, 8147, 1>>, <<8150, 8155, 1>>, <<8160, 8172, 1>>, <<8178, 8180, 1>>,
    <<8182, 8188, 1>>, <<8304, 8305, 1>>, <<8308, 8313, 1>>, <<8319, 8329, 1>>, <<8336, 8348, 1>>,
    <<8450, 8450, 1>>, <<8455, 8455, 1>>, <<8458, 8467, 1>>, <<8469, 8469, 1>>, <<8473, 8477, 1>>,
    <<8484, 8490, 2>>, <<8491, 8493, 1>>, <<8495, 8505, 1>>, <<8508, 8511, 1>>, <<8517, 8521, 1>>,
    <<8526, 8526, 1>>, <<8528, 8585, 1>>, <<9312, 9371, 1>>, <<9450, 9471, 1>>, <<10102, 10131, 1>>,
    <<11264, 11492, 1>>, <<11499, 11502, 1>>, <<11506, 11507, 1>>, <<11517, 11517, 1>>, <<11520, 11557, 1>>,
    <<11559, 11559, 1>>, <<11565, 11565, 1>>, <<11568, 11623, 1>>, <<11631, 11631, 1>>, <<11648, 11670, 1>>,
    <<11680, 11686, 1>>, <<11688, 11694, 1>>, <<11696, 11702, 1>>, <<11704, 11710, 1>>, <<11712, 11718, 1>>,
    <<11720, 11726, 1>>, <<11728, 11734, 1>>, <<11736, 11742, 1>>, <<11823, 11823, 1>>, <<12293, 12295, 1>>,
    <<12321, 12329, 1>>, <<12337, 12341, 1>>, <<12344, 12348, 1>>, <<12353, 12438, 1>>, <<12445, 12447, 1>>,
    <<12449, 12538, 1>>, <<12540, 12543, 1>>, <<12549, 12591, 1>>, <<12593, 12686, 1>>, <<12690, 12693, 1>>,
    <<12704, 12735, 1>>, <<12784, 12799, 1>>, <<12832, 12841, 1>>, <<12872, 12879, 1>>, <<12881, 12895, 1>>,
    <<12928, 12937, 1>>, <<12977, 12991, 1>>, <<13312, 19903, 1>>, <<19968, 42124, 1>>, <<42192, 42237, 1>>,
    <<42240, 42508, 1>>, <<42512, 42539, 1>>, <<42560, 42606, 1>>, <<42623, 42653, 1>>, <<42656, 42735, 1>>,
    <<42775, 42783, 1>>, <<42786, 42888, 1>>, <<42891, 42954, 1>>, <<42960, 42961, 1>>, <<42963, 42963, 1>>,
    <<42965, 42969, 1>>, <<42994, 43009, 1>>, <<43011, 43013, 1>>, <<43015, 43018, 1>>, <<43020, 43042, 1>>,
    <<43056, 43061, 1>>, <<43072, 43123, 1>>, <<43138, 43187, 1>>, <<43216, 43225, 1>>, <<43250, 43255, 1>>,
    <<43259, 43259, 1>>, <<43261, 43262, 1>>, <<43264, 43301, 1>>, <<43312, 43334, 1>>, <<43360, 43388, 1>>,
    <<43396, 43442, 1>>, <<43471, 43481, 1>>, <<43488, 43492, 1>>, <<43494, 43518, 1>>, <<43520, 43560, 1>>,
    <<43584, 43586, 1>>, <<43588, 43595, 1>>, <<43600, 43609, 1>>, <<43616, 43638, 1>>, <<43642, 43642, 1>>,
    <<43646, 43695, 1>>, <<43697, 43697, 1>>, <<43701, 43702, 1>>, <<43705, 43709, 1>>, <<43712, 43712, 1>>,
    <<43714, 43714, 1>>, <<43739, 43741, 1>>, <<43744, 43754, 1>>, <<43762, 43764, 1>>, <<43777, 43782, 1>>,
    <<43785, 43790, 1>>, <<43793, 43798, 1>>, <<43808, 43814, 1>>, <<43816, 43822, 1>>, <<43824, 43866, 1>>,
    <<43868, 43881, 1>>, <<43888, 44002, 1>>, <<44016, 44025, 1>>, <<44032, 55203, 1>>, <<55216, 55238, 1>>,
    <<55243, 55291, 1>>, <<63744, 64109, 1>>, <<64112, 64217, 1>>, <<64256, 64262, 1>>, <<64275, 64279, 1>>,
    <<64285, 64285, 1>>, <<64287, 64296, 1>>, <<64298, 64310, 1>>, <<64312, 64316, 1>>, <<64318, 64318, 1>>,
    <<64320, 64321, 1>>, <<64323, 64324, 1>>, <<64326, 64433, 1>>, <<64467, 64829, 1>>, <<64848, 64911, 1>>,
    <<64914, 64967, 1>>, <<65008, 65019, 1>>, <<65136, 65140, 1>>, <<65142, 65276, 1>>, <<65296, 65305, 1>>,
    <<65313, 65338, 1>>, <<65345, 65370, 1>>, <<65382, 65470, 1>>, <<65474, 65479, 1>>, <<65482, 65487, 1>>,
    <<65490, 65495, 1>>, <<65498, 65500, 1>>, <<65536, 65547, 1>>, <<65549, 65574, 1>>, <<65576, 65594, 1>>,
    <<65596, 65597, 1>>, <<65599, 65613, 1>>, <<65616, 65629, 1>>, <<65664, 65786, 1>>, <<65799, 65843, 1>>,
    <<65856, 65912, 1>>, <<65930, 65931, 1>>, <<66176, 66204, 1>>, <<66208, 66256, 1>>, <<66273, 66299, 1>>,
    <<66304, 66339, 1>>, <<66349, 66378, 1>>, <<66384, 66421, 1>>, <<66432, 66461, 1>>, <<66464, 66499, 1>>,
    <<66504, 66511, 1>>, <<66513, 66517, 1>>, <<66560, 66717, 1>>, <<66720, 66729, 1>>, <<66736, 66771, 1>>,
    <<66776, 66811, 1>>, <<66816, 66855, 1>>, <<66864, 66915, 1>>, <<66928, 66938, 1>>, <<66940, 66954, 1>>,
    <<66956, 66962, 1>>, <<66964, 66965, 1>>, <<66967, 66977, 1>>, <<66979, 66993, 1>>, <<66995, 67001, 1>>,
    <<67003, 67004, 1>>, <<67072, 67382, 1>>, <<67392, 67413, 1>>, <<67424, 67431, 1>>, <<67456, 67461, 1>>,
    <<67463, 67504, 1>>, <<67506, 67514, 1>>, <<67584, 67589, 1>>, <<67592, 67592, 1>>, <<67594, 67637, 1>>,
    <<67639, 67640, 1>>, <<67644, 67644, 1>>, <<67647, 67669, 1>>, <<67672, 67702, 1>>, <<67705, 67742, 1>>,
    <<67751, 67759, 1>>, <<67808, 67826, 1>>, <<67828, 67829, 1>>, <<67835, 67867, 1>>, <<67872, 67897, 1>>,
    <<67968, 68023, 1>>, <<68028, 68047, 1>>, <<68050, 68096, 1>>, <<68112, 68115, 1>>, <<68117, 68119, 1>>,
    <<68121, 68149, 1>>, <<68160, 68168, 1>>, <<68192, 68222, 1>>, <<68224, 68255, 1>>, <<68288, 68295, 1>>,
    <<68297, 68324, 1>>, <<68331, 68335, 1>>, <<68352, 68405, 1>>, <<68416, 68437, 1>>, <<68440, 68466, 1>>,
    <<68472, 68497, 1>>, <<68521, 68527, 1>>, <<68608, 68680, 1>>, <<68736, 68786, 1>>, <<68800, 68850, 1>>,
    <<68858, 68899, 1>>, <<68912, 68921, 1>>, <<69216, 69246, 1>>, <<69248, 69289, 1>>, <<69296, 69297, 1>>,
    <<69376, 69415, 1>>, <<69424, 69445, 1>>, <<69457, 69460, 1>>, <<69488, 69505, 1>>, <<69552, 69579, 1>>,
    <<69600, 69622, 1>>, <<69635, 69687, 1>>, <<69714, 69743, 1>>, <<69745, 69746, 1>>, <<69749, 69749, 1>>,
    <<69763, 69807, 1>>, <<69840, 69864, 1>>, <<69872, 69881, 1>>, <<69891, 69926, 1>>, <<69942, 69951, 1>>,
    <<69956, 69956, 1>>, <<69959, 69959, 1>>, <<69968, 70002, 1>>, <<70006, 70006, 1>>, <<70019, 70066, 1>>,
    <<70081, 70084, 1>>, <<70096, 70106, 1>>, <<70108, 70108, 1>>, <<70113, 70132, 1>>, <<70144, 70161, 1>>,
    <<70163, 70187, 1>>, <<70272, 70278, 1>>, <<70280, 70280, 1>>, <<70282, 70285, 1>>, <<70287, 70301, 1>>,
    <<70303, 70312, 1>>, <<70320, 70366, 1>>, <<70384, 70393, 1>>, <<70405, 70412, 1>>, <<70415, 70416, 1>>,
    <<70419, 70440, 1>>, <<70442, 70448, 1>>, <<70450, 70451, 1>>, <<70453, 70457, 1>>, <<70461, 70461, 1>>,
    <<70480, 70480, 1>>, <<70493, 70497, 1>>, <<70656, 70708, 1>>, <<70727, 70730, 1>>, <<70736, 70745, 1>>,
    <<70751, 70753, 1>>, <<70784, 70831, 1>>, <<70852, 70853, 1>>, <<70855, 70855, 1>>, <<70864, 70873, 1>>,
    <<71040, 71086, 1>>, <<71128, 71131, 1>>, <<71168, 71215, 1>>, <<71236, 71236, 1>>, <<71248, 71257, 1>>,
    <<71296, 71338, 1>>, <<71352, 71352, 1>>, <<71360, 71369, 1>>, <<71424, 71450, 1>>, <<71472, 71483, 1>>,
    <<71488, 71494, 1>>, <<71680, 71723, 1>>, <<71840, 71922, 1>>, <<71935, 71942, 1>>, <<71945, 71945, 1>>,
    <<71948, 71955, 1>>, <<71957, 71958, 1>>, <<71960, 71983, 1>>, <<71999, 71999, 1>>, <<72001, 72001, 1>>,
    <<72016, 72025, 1>>, <<72096, 72103, 1>>, <<72106, 72144, 1>>, <<72161, 72161, 1>>, <<72163, 72163, 1>>,
    <<72192, 72192, 1>>, <<72203, 72242, 1>>, <<72250, 72250, 1>>, <<72272, 72272, 1>>, <<72284, 72329, 1>>,
    <<72349, 72349, 1>>, <<72368, 72440, 1>>, <<72704, 72712, 1>>, <<72714, 72750, 1>>, <<72768, 72768, 1>>,
    <<72784, 72812, 1>>, <<72818, 72847, 1>>, <<72960, 72966, 1>>, <<72968, 72969, 1>>, <<72971, 73008, 1>>,
    <<73030, 73030, 1>>, <<73040, 73049, 1>>, <<73056, 73061, 1>>, <<73063, 73064, 1>>, <<73066, 73097, 1>>,
    <<73112, 73112, 1>>, <<73120, 73129, 1>>, <<73440, 73458, 1>>, <<73648, 73648, 1>>, <<73664, 73684, 1>>,
    <<73728, 74649, 1>>, <<74752, 74862, 1>>, <<74880, 75075, 1>>, <<77712, 77808, 1>>, <<77824, 78894, 1>>,
    <<82944, 83526, 1>>, <<92160, 92728, 1>>, <<92736, 92766, 1>>, <<92768, 92777, 1>>, <<92784, 92862, 1>>,
    <<92864, 92873, 1>>, <<92880, 92909, 1>>, <<92928, 92975, 1>>, <<92992, 92995, 1>>, <<93008, 93017, 1>>,
    <<93019, 93025, 1>>, <<93027, 93047, 1>>, <<93053, 93071, 1>>, <<93760, 93846, 1>>, <<93952, 94026, 1>>,
    <<94032, 94032, 1>>, <<94099, 94111, 1>>, <<94176, 94177, 1>>, <<94179, 94179, 1>>, <<94208, 100343, 1>>,
    <<100352, 101589, 1>>, <<101632, 101640, 1>>, <<110576, 110579, 1>>, <<110581, 110587, 1>>, <<110589, 110590, 1>>,
    <<110592, 110882, 1>>, <<110928, 110930, 1>>, <<110948, 110951, 1>>, <<110960, 111355, 1>>, <<113664, 113770, 1>>,
    <<113776, 113788, 1>>, <<113792, 113800, 1>>, <<113808, 113817, 1>>, <<119520, 119539, 1>>, <<119648, 119672, 1>>,
    <<119808, 119892, 1>>, <<119894, 119964, 1>>, <<119966, 119967, 1>>, <<119970, 119970, 1>>, <<119973, 119974, 1>>,
    <<119977, 119980, 1>>, <<119982, 119993, 1>>, <<119995, 119995, 1>>, <<119997, 120003, 1>>, <<120005, 120069, 1>>,
    <<120071, 120074, 1>>, <<120077, 120084, 1>>, <<120086, 120092, 1>>, <<120094, 120121, 1>>, <<120123, 120126, 1>>,
    <<120128, 120132, 1>>, <<120134, 120134, 1>>, <<120138, 120144, 1>>, <<120146, 120485, 1>>, <<120488, 120512, 1>>,
    <<120514, 120538, 1>>, <<120540, 120570, 1>>, <<120572, 120596, 1>>, <<120598, 120628, 1>>, <<120630, 120654, 1>>,
    <<120656, 120686, 1>>, <<120688, 120712, 1>>, <<120714, 120744, 1>>, <<120746, 120770, 1>>, <<120772, 120779, 1>>,
    <<120782, 120831, 1>>, <<122624, 122654, 1>>, <<123136, 123180, 1>>, <<123191, 123197, 1>>, <<123200, 123209, 1>>,
    <<123214, 123214, 1>>, <<123536, 123565, 1>>, <<123584, 123627, 1>>, <<123632, 123641, 1>>, <<124896, 124902, 1>>,
    <<124904, 124907, 1>>, <<124909, 124910, 1>>, <<124912, 124926, 1>>, <<124928, 125124, 1>>, <<125127, 125135, 1>>,
    <<125184, 125251, 1>>, <<125259, 125259, 1>>, <<125264, 125273, 1>>, <<126065, 126123, 1>>, <<126125, 126127, 1>>,
    <<126129, 126132, 1>>, <<126209, 126253, 1>>, <<126255, 126269, 1>>, <<126464, 126467, 1>>, <<126469, 126495, 1>>,
    <<126497, 126498, 1>>, <<126500, 126500, 1>>, <<126503, 126503, 1>>, <<126505, 126514, 1>>, <<126516, 126519, 1>>,
    <<126521, 126521, 1>>, <<126523, 126523, 1>>, <<126530, 126530, 1>>, <<126535, 126541, 2>>, <<126542, 126543, 1>>,
    <<126545, 126546, 1>>, <<126548, 126548, 1>>, <<126551, 126561, 2>>, <<126562, 126562, 1>>, <<126564, 126564, 1>>,
    <<126567, 126570, 1>>, <<126572, 126578, 1>>, <<126580, 126583, 1>>, <<126585, 126588, 1>>, <<126590, 126590, 1>>,
    <<126592, 126601, 1>>, <<126603, 126619, 1>>, <<126625, 126627, 1>>, <<126629, 126633, 1>>, <<126635, 126651, 1>>,
    <<127232, 127244, 1>>, <<130032, 130041, 1>>, <<131072, 173791, 1>>, <<173824, 177976, 1>>, <<177984, 178205, 1>>,
    <<178208, 183969, 1>>, <<183984, 191456, 1>>, <<194560, 195101, 1>>, <<196608, 201546, 1>>
    >>

\* the case-ignorable characters, which str.lower() skips when it looks for
\* the cased characters around a capital sigma
CaseIgnorableRuns == <<
    <<39, 39, 1>>, <<46, 46, 1>>, <<58, 58, 1>>, <<94, 94, 1>>, <<96, 96, 1>>,
    <<168, 168, 1>>, <<173, 173, 1>>, <<175, 175, 1>>, <<180, 180, 1>>, <<183, 184, 1>>,
    <<688, 879, 1>>, <<884, 885, 1>>, <<890, 890, 1>>, <<900, 901, 1>>, <<903, 903, 1>>,
    <<1155, 1161, 1>>, <<1369, 1369, 1>>, <<1375, 1375, 1>>, <<1425, 1469, 1>>, <<1471, 1471, 1>>,
    <<1473, 1474, 1>>, <<1476, 1477, 1>>, <<1479, 1479, 1>>, <<1524, 1524, 1>>, <<1536, 1541, 1>>,
    <<1552, 1562, 1>>, <<1564, 1564, 1>>, <<1600, 1600, 1>>, <<1611, 1631, 1>>, <<1648, 1648, 1>>,
    <<1750, 1757, 1>>, <<1759, 1768, 1>>, <<1770, 1773, 1>>, <<1807, 1807, 1>>, <<1809, 1809, 1>>,
    <<1840, 1866, 1>>, <<1958, 1968, 1>>, <<2027, 2037, 1>>, <<2042, 2042, 1>>, <<2045, 2045, 1>>,
    <<2070, 2093, 1>>, <<2137, 2139, 1>>, <<2184, 2184, 1>>, <<2192, 2193, 1>>, <<2200, 2207, 1>>,
    <<2249, 2306, 1>>, <<2362, 2362, 1>>, <<2364, 2364, 1>>, <<2369, 2376, 1>>, <<2381, 2381, 1>>,
    <<2385, 2391, 1>>, <<2402, 2403, 1>>, <<2417, 2417, 1>>, <<2433, 2433, 1>>, <<2492, 2492, 1>>,
    <<2497, 2500, 1>>, <<2509, 2509, 1>>, <<2530, 2531, 1>>, <<2558, 2558, 1>>, <<2561, 2562, 1>>,
    <<2620, 2620, 1>>, <<2625, 2626, 1>>, <<2631, 2632, 1>>, <<2635, 2637, 1>>, <<2641, 2641, 1>>,
    <<2672, 2673, 1>>, <<2677, 2677, 1>>, <<2689, 2690, 1>>, <<2748, 2748, 1>>, <<2753, 2757, 1>>,
    <<2759, 2760, 1>>, <<2765, 2765, 1>>, <<2786, 2787, 1>>, <<2810, 2815, 1>>, <<2817, 2817, 1>>,
    <<2876, 2876, 1>>, <<2879, 2879, 1>>, <<2881, 2884, 1>>, <<2893, 2893, 1>>, <<2901, 2902, 1>>,
    <<2914, 2915, 1>>, <<2946, 2946, 1>>, <<3008, 3008, 1>>, <<3021, 3021, 1>>, <<3072, 3072, 1>>,
    <<3076, 3076, 1>>, <<3132, 3132, 1>>, <<3134, 3136, 1>>, <<3142, 3144, 1>>, <<3146, 3149, 1>>,
    <<3157, 3158, 1>>, <<3170, 3171, 1>>, <<3201, 3201, 1>>, <<3260, 3260, 1>>, <<3263, 3263, 1>>,
    <<3270, 3270, 1>>, <<3276, 3277, 1>>, <<3298, 3299, 1>>, <<3328, 3329, 1>>, <<3387, 3388, 1>>,
    <<3393, 3396, 1>>, <<3405, 3405, 1>>, <<3426, 3427, 1>>, <<3457, 3457, 1>>, <<3530, 3530, 1>>,
    <<3538, 3540, 1>>, <<3542, 3542, 1>>, <<3633, 3633, 1>>, <<3636, 3642, 1>>, <<3654, 3662, 1>>,
    <<3761, 3761, 1>>, <<3764, 3772, 1>>, <<3782, 3782, 1>>, <<3784, 3789, 1>>, <<3864, 3865, 1>>,
    <<3893, 3897, 2>>, <<3953, 3966, 1>>, <<3968, 3972, 1>>, <<3974, 3975, 1>>, <<3981, 3991, 1>>,
    <<3993, 4028, 1>>, <<4038, 4038, 1>>, <<4141, 4144, 1>>, <<4146, 4151, 1>>, <<4153, 4154, 1>>,
    <<4157, 4158, 1>>, <<4184, 4185, 1>>, <<4190, 4192, 1>>, <<4209, 4212, 1>>, <<4226, 4226, 1>>,
    <<4229, 4230, 1>>, <<4237, 4237, 1>>, <<4253, 4253, 1>>, <<4348, 4348, 1>>, <<4957, 4959, 1>>,
    <<5906, 5908, 1>>, <<5938, 5939, 1>>, <<5970, 5971, 1>>, <<6002, 6003, 1>>, <<6068, 6069, 1>>,
    <<6071, 6077, 1>>, <<6086, 6086, 1>>, <<6089, 6099, 1>>, <<6103, 6103, 1>>, <<6109, 6109, 1>>,
    <<6155, 6159, 1>>, <<6211, 6211, 1>>, <<6277, 6278, 1>>, <<6313, 6313, 1>>, <<6432, 6434, 1>>,
    <<6439, 6440, 1>>, <<6450, 6450, 1>>, <<6457, 6459, 1>>, <<6679, 6680, 1>>, <<6683, 6683, 1>>,
    <<6742, 6742, 1>>, <<6744, 6750, 1>>, <<6752, 6752, 1>>, <<6754, 6754, 1>>, <<6757, 6764, 1>>,
    <<6771, 6780, 1>>, <<6783, 6783, 1>>, <<6823, 6823, 1>>, <<6832, 6862, 1>>, <<6912, 6915, 1>>,
    <<6964, 6964, 1>>, <<6966, 6970, 1>>, <<6972, 6972, 1>>, <<6978, 6978, 1>>, <<7019, 7027, 1>>,
    <<7040, 7041, 1>>, <<7074, 7077, 1>>, <<7080, 7081, 1>>, <<7083, 7085, 1>>, <<7142, 7142, 1>>,
    <<7144, 7145, 1>>, <<7149, 7149, 1>>, <<7151, 7153, 1>>, <<7212, 7219, 1>>, <<7222, 7223, 1>>,
    <<7288, 7293, 1>>, <<7376, 7378, 1>>, <<7380, 7392, 1>>, <<7394, 7400, 1>>, <<7405, 7405, 1>>,
    <<7412, 7412, 1>>, <<7416, 7417, 1>>, <<7468, 7530, 1>>, <<7544, 7544, 1>>, <<7579, 7679, 1>>,
    <<8125, 8125, 1>>, <<8127, 8129, 1>>, <<8141, 8143, 1>>, <<8157, 8159, 1>>, <<8173, 8175, 1>>,
    <<8189, 8190, 1>>, <<8203, 8207, 1>>, <<8216, 8217, 1>>, <<8228, 8228, 1>>, <<8231, 8231, 1>>,
    <<8234, 8238, 1>>, <<8288, 8292, 1>>, <<8294, 8303, 1>>, <<8305, 8305, 1>>, <<8319, 8319, 1>>,
    <<8336, 8348, 1>>, <<8400, 8432, 1>>, <<11388, 11389, 1>>, <<11503, 11505, 1>>, <<11631, 11631, 1>>,
    <<11647, 11647, 1>>, <<11744, 11775, 1>>, <<11823, 11823, 1>>, <<12293, 12293, 1>>, <<12330, 12333, 1>>,
    <<12337, 12341, 1>>, <<12347, 12347, 1>>, <<12441, 12446, 1>>, <<12540, 12542, 1>>, <<40981, 40981, 1>>,
    <<42232, 42237, 1>>, <<42508, 42508, 1>>, <<42607, 42610, 1>>, <<42612, 42621, 1>>, <<42623, 42623, 1>>,
    <<42652, 42655, 1>>, <<42736, 42737, 1>>, <<42752, 42785, 1>>, <<42864, 42864, 1>>, <<42888, 42890, 1>>,
    <<42994, 42996, 1>>, <<43000, 43001, 1>>, <<43010, 43010, 1>>, <<43014, 43014, 1>>, <<43019, 43019, 1>>,
    <<43045, 43046, 1>>, <<43052, 43052, 1>>, <<43204, 43205, 1>>, <<43232, 43249, 1>>, <<43263, 43263, 1>>,
    <<43302, 43309, 1>>, <<43335, 43345, 1>>, <<43392, 43394, 1>>, <<43443, 43443, 1>>, <<43446, 43449, 1>>,
    <<43452, 43453, 1>>, <<43471, 43471, 1>>, <<43493, 43494, 1>>, <<43561, 43566, 1>>, <<43569, 43570, 1>>,
    <<43573, 43574, 1>>, <<43587, 43587, 1>>, <<43596, 43596, 1>>, <<43632, 43632, 1>>, <<43644, 43644, 1>>,
    <<43696, 43696, 1>>, <<43698, 43700, 1>>, <<43703, 43704, 1>>, <<43710, 43711, 1>>, <<43713, 43713, 1>>,
    <<43741, 43741, 1>>, <<43756, 43757, 1>>, <<43763, 43764, 1>>, <<43766, 43766, 1>>, <<43867, 43871, 1>>,
    <<43881, 43883, 1>>, <<44005, 44005, 1>>, <<44008, 44008, 1>>, <<44013, 44013, 1>>, <<64286, 64286, 1>>,
    <<64434, 64450, 1>>, <<65024, 65039, 1>>, <<65043, 65043, 1>>, <<65056, 65071, 1>>, <<65106, 65106, 1>>,
    <<65109, 65109, 1>>, <<65279, 65279, 1>>, <<65287, 65287, 1>>, <<65294, 65294, 1>>, <<65306, 65306, 1>>,
    <<65342, 65342, 1>>, <<65344, 65344, 1>>, <<65392, 65392, 1>>, <<65438, 65439, 1>>, <<65507, 65507, 1>>,
    <<65529, 65531, 1>>, <<66045, 66045, 1>>, <<66272, 66272, 1>>, <<66422, 66426, 1>>, <<67456, 67461, 1>>,
    <<67463, 67504, 1>>, <<67506, 67514, 1>>, <<68097, 68099, 1>>, <<68101, 68102, 1>>, <<68108, 68111, 1>>,
    <<68152, 68154, 1>>, <<68159, 68159, 1>>, <<68325, 68326, 1>>, <<68900, 68903, 1>>, <<69291, 69292, 1>>,
    <<69446, 69456, 1>>, <<69506, 69509, 1>>, <<69633, 69633, 1>>, <<69688, 69702, 1>>, <<69744, 69744, 1>>,
    <<69747, 69748, 1>>, <<69759, 69761, 1>>, <<69811, 69814, 1>>, <<69817, 69818, 1>>, <<69821, 69821, 1>>,
    <<69826, 69826, 1>>, <<69837, 69837, 1>>, <<69888, 69890, 1>>, <<69927, 69931, 1>>, <<69933, 69940, 1>>,
    <<70003, 70003, 1>>, <<70016, 70017, 1>>, <<70070, 70078, 1>>, <<70089, 70092, 1>>, <<70095, 70095, 1>>,
    <<70191, 70193, 1>>, <<70196, 70196, 1>>, <<70198, 70199, 1>>, <<70206, 70206, 1>>, <<70367, 70367, 1>>,
    <<70371, 70378, 1>>, <<70400, 70401, 1>>, <<70459, 70460, 1>>, <<70464, 70464, 1>>, <<70502, 70508, 1>>,
    <<70512, 70516, 1>>, <<70712, 70719, 1>>, <<70722, 70724, 1>>, <<70726, 70726, 1>>, <<70750, 70750, 1>>,
    <<70835, 70840, 1>>, <<70842, 70842, 1>>, <<70847, 70848, 1>>, <<70850, 70851, 1>>, <<71090, 71093, 1>>,
    <<71100, 71101, 1>>, <<71103, 71104, 1>>, <<71132, 71133, 1>>, <<71219, 71226, 1>>, <<71229, 71229, 1>>,
    <<71231, 71232, 1>>, <<71339, 71339, 1>>, <<71341, 71341, 1>>, <<71344, 71349, 1>>, <<71351, 71351, 1>>,
    <<71453, 71455, 1>>, <<71458, 71461, 1>>, <<71463, 71467, 1>>, <<71727, 71735, 1>>, <<71737, 71738, 1>>,
    <<71995, 71996, 1>>, <<71998, 71998, 1>>, <<72003, 72003, 1>>, <<72148, 72151, 1>>, <<72154, 72155, 1>>,
    <<72160, 72160, 1>>, <<72193, 72202, 1>>, <<72243, 72248, 1>>, <<72251, 72254, 1>>, <<72263, 72263, 1>>,
    <<72273, 72278, 1>>, <<72281, 72283, 1>>, <<72330, 72342, 1>>, <<72344, 72345, 1>>, <<72752, 72758, 1>>,
    <<72760, 72765, 1>>, <<72767, 72767, 1>>, <<72850, 72871, 1>>, <<72874, 72880, 1>>, <<72882, 72883, 1>>,
    <<72885, 72886, 1>>, <<73009, 73014, 1>>, <<73018, 73018, 1>>, <<73020, 73021, 1>>, <<73023, 73029, 1>>,
    <<73031, 73031, 1>>, <<73104, 73105, 1>>, <<73109, 73109, 1>>, <<73111, 73111, 1>>, <<73459, 73460, 1>>,
    <<78896, 78904, 1>>, <<92912, 92916, 1>>, <<92976, 92982, 1>>, <<92992, 92995, 1>>, <<94031, 94031, 1>>,
    <<94095, 94111, 1>>, <<94176, 94177, 1>>, <<94179, 94180, 1>>, <<110576, 110579, 1>>, <<110581, 110587, 1>>,
    <<110589, 110590, 1>>, <<113821, 113822, 1>>, <<113824, 113827, 1>>, <<118528, 118573, 1>>, <<118576, 118598, 1>>,
    <<119143, 119145, 1>>, <<119155, 119170, 1>>, <<119173, 119179, 1>>, <<119210, 119213, 1>>, <<119362, 119364, 1>>,
    <<121344, 121398, 1>>, <<121403, 121452, 1>>, <<121461, 121461, 1>>, <<121476, 121476, 1>>, <<121499, 121503, 1>>,
    <<121505, 121519, 1>>, <<122880, 122886, 1>>, <<122888, 122904, 1>>, <<122907, 122913, 1>>, <<122915, 122916, 1>>,
    <<122918, 122922, 1>>, <<123184, 123197, 1>>, <<123566, 123566, 1>>, <<123628, 123631, 1>>, <<125136, 125142, 1>>,
    <<125252, 125259, 1>>, <<127995, 127999, 1>>, <<917505, 917505, 1>>, <<917536, 917631, 1>>, <<917760, 917999, 1>>
    >>

\* the characters that str.lower() changes: <<lo, hi, step, delta>> maps c to
\* c + delta
ToLowerRuns == <<
    <<65, 90, 1, 32>>, <<192, 214, 1, 32>>, <<216, 222, 1, 32>>, <<256, 302, 2, 1>>,
    <<306, 310, 2, 1>>, <<313, 327, 2, 1>>, <<330, 374, 2, 1>>, <<376, 376, 1, -121>>,
    <<377, 381, 2, 1>>, <<385, 385, 1, 210>>, <<386, 388, 2, 1>>, <<390, 390, 1, 206>>,
    <<391, 391, 1, 1>>, <<393, 394, 1, 205>>, <<395, 395, 1, 1>>, <<398, 398, 1, 79>>,
    <<399, 399, 1, 202>>, <<400, 400, 1, 203>>, <<401, 401, 1, 1>>, <<403, 403, 1, 205>>,
    <<404, 404, 1, 207>>, <<406, 406, 1, 211>>, <<407, 407, 1, 209>>, <<408, 408, 1, 1>>,
    <<412, 412, 1, 211>>, <<413, 413, 1, 213>>, <<415, 415, 1, 214>>, <<416, 420, 2, 1>>,
    <<422, 422, 1, 218>>, <<423, 423, 1, 1>>, <<425, 425, 1, 218>>, <<428, 428, 1, 1>>,
    <<430, 430, 1, 218>>, <<431, 431, 1, 1>>, <<433, 434, 1, 217>>, <<435, 437, 2, 1>>,
    <<439, 439, 1, 219>>, <<440, 440, 1, 1>>, <<444, 444, 1, 1>>, <<452, 452, 1, 2>>,
    <<453, 453, 1, 1>>, <<455, 455, 1, 2>>, <<456, 456, 1, 1>>, <<458, 458, 1, 2>>,
    <<459, 475, 2, 1>>, <<478, 494, 2, 1>>, <<497, 497, 1, 2>>, <<498, 500, 2, 1>>,
    <<502, 502, 1, -97>>, <<503, 503, 1, -56>>, <<504, 542, 2, 1>>, <<544, 544, 1, -130>>,
    <<546, 562, 2, 1>>, <<570, 570, 1, 10795>>, <<571, 571, 1, 1>>, <<573, 573, 1, -163>>,
    <<574, 574, 1, 10792>>, <<577, 577, 1, 1>>, <<579, 579, 1, -195>>, <<580, 580, 1, 69>>,
    <<581, 581, 1, 71>>, <<582, 590, 2, 1>>, <<880, 882, 2, 1>>, <<886, 886, 1, 1>>,
    <<895, 895, 1, 116>>, <<902, 902, 1, 38>>, <<904, 906, 1, 37>>, <<908, 908, 1, 64>>,
    <<910, 911, 1, 63>>, <<913, 929, 1, 32>>, <<931, 939, 1, 32>>, <<975, 975, 1, 8>>,
    <<984, 1006, 2, 1>>, <<1012, 1012, 1, -60>>, <<1015, 1015, 1, 1>>, <<1017, 1017, 1, -7>>,
    <<1018, 1018, 1, 1>>, <<1021, 1023, 1, -130>>, <<1024, 1039, 1, 80>>, <<1040, 1071, 1, 32>>,
    <<1120, 1152, 2, 1>>, <<1162, 1214, 2, 1>>, <<1216, 1216, 1, 15>>, <<1217, 1229, 2, 1>>,
    <<1232, 1326, 2, 1>>, <<1329, 1366, 1, 48>>, <<4256, 4293, 1, 7264>>, <<4295, 4295, 1, 7264>>,
    <<4301, 4301, 1, 7264>>, <<5024, 5103, 1, 38864>>, <<5104, 5109, 1, 8>>, <<7312, 7354, 1, -3008>>,
    <<7357, 7359, 1, -3008>>, <<7680, 7828, 2, 1>>, <<7838, 7838, 1, -7615>>, <<7840, 7934, 2, 1>>,
    <<7944, 7951, 1, -8>>, <<7960, 7965, 1, -8>>, <<7976, 7983, 1, -8>>, <<7992, 7999, 1, -8>>,
    <<8008, 8013, 1, -8>>, <<8025, 8031, 2, -8>>, <<8040, 8047, 1, -8>>, <<8072, 8079, 1, -8>>,
    <<8088, 8095, 1, -8>>, <<8104, 8111, 1, -8>>, <<8120, 8121, 1, -8>>, <<8122, 8123, 1, -74>>,
    <<8124, 8124, 1, -9>>, <<8136, 8139, 1, -86>>, <<8140, 8140, 1, -9>>, <<8152, 8153, 1, -8>>,
    <<8154, 8155, 1, -100>>, <<8168, 8169, 1, -8>>, <<8170, 8171, 1, -112>>, <<8172, 8172, 1, -7>>,
    <<8184, 8185, 1, -128>>, <<8186, 8187, 1, -126>>, <<8188, 8188, 1, -9>>, <<8486, 8486, 1, -7517>>,
    <<8490, 8490, 1, -8383>>, <<8491, 8491, 1, -8262>>, <<8498, 8498, 1, 28>>, <<8544, 8559, 1, 16>>,
    <<8579, 8579, 1, 1>>, <<9398, 9423, 1, 26>>, <<11264, 11311, 1, 48>>, <<11360, 11360, 1, 1>>,
    <<11362, 11362, 1, -10743>>, <<11363, 11363, 1, -3814>>, <<11364, 11364, 1, -10727>>, <<11367, 11371, 2, 1>>,
    <<11373, 11373, 1, -10780>>, <<11374, 11374, 1, -10749>>, <<11375, 11375, 1, -10783>>, <<11376, 11376, 1, -10782>>,
    <<11378, 11378, 1, 1>>, <<11381, 11381, 1, 1>>, <<11390, 11391, 1, -10815>>, <<11392, 11490, 2, 1>>,
    <<11499, 11501, 2, 1>>, <<11506, 11506, 1, 1>>, <<42560, 42604, 2, 1>>, <<42624, 42650, 2, 1>>,
    <<42786, 42798, 2, 1>>, <<42802, 42862, 2, 1>>, <<42873, 42875, 2, 1>>, <<42877, 42877, 1, -35332>>,
    <<42878, 42886, 2, 1>>, <<42891, 42891, 1, 1>>, <<42893, 42893, 1, -42280>>, <<42896, 42898, 2, 1>>,
    <<42902, 42920, 2, 1>>, <<42922, 42922, 1, -42308>>, <<42923, 42923, 1, -42319>>, <<42924, 42924, 1, -42315>>,
    <<42925, 42925, 1, -42305>>, <<42926, 42926, 1, -42308>>, <<42928, 42928, 1, -42258>>, <<42929, 42929, 1, -42282>>,
    <<42930, 42930, 1, -42261>>, <<42931, 42931, 1, 928>>, <<42932, 42946, 2, 1>>, <<42948, 42948, 1, -48>>,
    <<42949, 42949, 1, -42307>>, <<42950, 42950, 1, -35384>>, <<42951, 42953, 2, 1>>, <<42960, 42960, 1, 1>>,
    <<42966, 42968, 2, 1>>, <<42997, 42997, 1, 1>>, <<65313, 65338, 1, 32>>, <<66560, 66599, 1, 40>>,
    <<66736, 66771, 1, 40>>, <<66928, 66938, 1, 39>>, <<66940, 66954, 1, 39>>, <<66956, 66962, 1, 39>>,
    <<66964, 66965, 1, 39>>, <<68736, 68786, 1, 64>>, <<71840, 71871, 1, 32>>, <<93760, 93791, 1, 32>>,
    <<125184, 125217, 1, 34>>
    >>

\* re._casefix._EXTRA_CASES: the lowercase characters that re.IGNORECASE
\* takes for the same letter, <<c, the others>>
ExtraCases == <<
    <<105, {305}>>, <<115, {383}>>, <<181, {956}>>, <<305, {105}>>,
    <<383, {115}>>, <<837, {953, 8126}>>, <<912, {8147}>>, <<944, {8163}>>,
    <<946, {976}>>, <<949, {1013}>>, <<952, {977}>>, <<953, {837, 8126}>>,
    <<954, {1008}>>, <<956, {181}>>, <<960, {982}>>, <<961, {1009}>>,
    <<962, {963}>>, <<963, {962}>>, <<966, {981}>>, <<976, {946}>>,
    <<977, {952}>>, <<981, {966}>>, <<982, {960}>>, <<1008, {954}>>,
    <<1009, {961}>>, <<1013, {949}>>, <<1074, {7296}>>, <<1076, {7297}>>,
    <<1086, {7298}>>, <<1089, {7299}>>, <<1090, {7300, 7301}>>, <<1098, {7302}>>,
    <<1123, {7303}>>, <<7296, {1074}>>, <<7297, {1076}>>, <<7298, {1086}>>,
    <<7299, {1089}>>, <<7300, {1090, 7301}>>, <<7301, {1090, 7300}>>, <<7302, {1098}>>,
    <<7303, {1123}>>, <<7304, {42571}>>, <<7777, {7835}>>, <<7835, {7777}>>,
    <<8126, {837, 953}>>, <<8147, {912}>>, <<8163, {944}>>, <<42571, {7304}>>,
    <<64261, {64262}>>, <<64262, {64261}>>
    >>

-----------------------------------------------------------------------------
(* The str methods used by the code *)

SetMax(S) == CHOOSE x \in S : \A y \in S : y <= x

SetMin(S) == CHOOSE x \in S : \A y \in S : x <= y

\* The tables are searched as sorted tables are: double k until row k of T
\* starts after c, then halve the interval.  Gallop is that k, a power of
\* two; LastRow is the number of the last row of T that starts at or
\* before c, looked for among the rows lo + 1 .. hi, and lo when none does.
RECURSIVE Gallop(_, _, _)
Gallop(T, c, k) ==
    IF k > Len(T) \/ T[k][1] > c THEN k ELSE Gallop(T, c, 2 * k)

RECURSIVE LastRow(_, _, _, _)
LastRow(T, c, lo, hi) ==
    IF lo >= hi THEN lo
    ELSE LET mid == (lo + hi + 1) \div 2
         IN  IF T[mid][1] <= c THEN LastRow(T, c, mid, hi)
             ELSE LastRow(T, c, lo, mid - 1)

\* the last row of T that starts at or before c, looked for under Gallop's k
RowUnder(T, c, k) ==
    LastRow(T, c, k \div 2, IF k - 1 < Len(T) THEN k - 1 ELSE Len(T))

RowOf(T, c) == RowUnder(T, c, Gallop(T, c, 1))

\* is c one of the characters of row k of the table of runs T
InRow(T, c, k) == k > 0 /\ c <= T[k][2] /\ (c - T[k][1]) % T[k][3] = 0

\* is c one of the characters of the table of runs T
InRuns(T, c) == InRow(T, c, RowOf(T, c))

\* c.islower(), c.isupper(), and c a titlecase character
IsLowerCh(c) == InRuns(LowerRuns, c)

IsUpperCh(c) == InRuns(UpperRuns, c)

IsTitleCh(c) == InRuns(TitleRuns, c)

\* a cased character
IsCased(c) == IsLowerCh(c) \/ IsUpperCh(c) \/ IsTitleCh(c)

\* \w
IsWordCh(c) == InRuns(WordRuns, c)

IsCaseIgnorable(c) == InRuns(CaseIgnorableRuns, c)

\* c moved by the distance that row k of T gives for its characters
Shifted(T, c, k) ==
    IF InRow(T, c, k) THEN c + T[k][4] ELSE IF c = 304 THEN 105 ELSE c

\* the lowercase character of c: what re.IGNORECASE compares, and c.lower()
\* but for the two characters of LowerCh
ToLower(c) == Shifted(ToLowerRuns, c, RowOf(ToLowerRuns, c))

\* a capital sigma at position i is final when a cased character comes
\* before it and none after it, case-ignorable characters skipped
FinalSigma(s, i) ==
    LET before == {j \in 1..(i - 1) : ~IsCaseIgnorable(s[j])}
        after  == {j \in (i + 1)..Len(s) : ~IsCaseIgnorable(s[j])}
    IN  /\ before # {} /\ IsCased(s[SetMax(before)])
        /\ after = {} \/ ~IsCased(s[SetMin(after)])

\* the text that str.lower() writes for the character at position i of s
LowerCh(s, i) ==
    IF s[i] = 931
    THEN IF FinalSigma(s, i) THEN <<962>> (* \u03c2 *) ELSE <<963>> (* \u03c3 *)
    ELSE IF s[i] = 304 THEN <<105, 775>> (* i\u0307 *)
    ELSE <<ToLower(s[i])>>

\* str.lower()
RECURSIVE LowerFrom(_, _)
LowerFrom(s, i) ==
    IF i > Len(s) THEN <<>> ELSE LowerCh(s, i) \o LowerFrom(s, i + 1)

lower(s) == LowerFrom(s, 1)

\* `sub in s`
Contains(s, sub) ==
    \E i \in 0..(Len(s) - Len(sub)) : SubSeq(s, i + 1, i + Len(sub)) = sub

\* s.startswith(prefix)
startswith(s, prefix) ==
    Len(prefix) <= Len(s) /\ SubSeq(s, 1, Len(prefix)) = prefix

\* s.lstrip(): drop the leading whitespace
lstrip(s) ==
    LET nonws == {i \in 1..Len(s) : s[i] \notin Whitespace}
    IN  IF nonws = {} THEN <<>> ELSE SubSeq(s, SetMin(nonws), Len(s))

\* s.strip(): drop the leading and the trailing whitespace
strip(s) ==
    LET nonws == {i \in 1..Len(s) : s[i] \notin Whitespace}
    IN  IF nonws = {} THEN <<>> ELSE SubSeq(s, SetMin(nonws), SetMax(nonws))

\* len(s.split()): the number of maximal runs of non-whitespace characters
SplitCount(s) ==
    Cardinality({i \in 1..Len(s) :
        /\ s[i] \notin Whitespace
        /\ (i = 1 \/ s[i - 1] \in Whitespace)})

\* s.islower(): at least one lowercase character and no uppercase or
\* titlecase one
islower(s) ==
    /\ \E i \in 1..Len(s) : IsLowerCh(s[i])
    /\ \A i \in 1..Len(s) : ~IsUpperCh(s[i]) /\ ~IsTitleCh(s[i])

\* s.istitle(): uppercase and titlecase characters only after uncased ones,
\* lowercase ones only after cased ones, and at least one cased character
istitle(s) ==
    /\ \E i \in 1..Len(s) : IsCased(s[i])
    /\ \A i \in 1..Len(s) :
          LET prevCased == i > 1 /\ IsCased(s[i - 1])
          IN  IF IsUpperCh(s[i]) \/ IsTitleCh(s[i]) THEN ~prevCased
              ELSE IsLowerCh(s[i]) => prevCased

\* s.split('\n')
RECURSIVE SplitLines(_)
SplitLines(s) ==
    LET nl == {i \in 1..Len(s) : s[i] = 10}
    IN  IF nl = {} THEN <<s>>
        ELSE <<SubSeq(s, 1, SetMin(nl) - 1)>>
                 \o SplitLines(SubSeq(s, SetMin(nl) + 1, Len(s)))

\* '\n'.join(lines)
RECURSIVE JoinLines(_)
JoinLines(lines) ==
    IF lines = <<>> THEN <<>>
    ELSE IF Len(lines) = 1 THEN lines[1]
    ELSE lines[1] \o <<10>> (* \n *) \o JoinLines(Tail(lines))

\* ' ' * n
Spaces(n) == [i \in 1..n |-> 32]

-----------------------------------------------------------------------------
(* Regular expressions (module re).  A pattern is a sequence of items; an  *)
(* item is a character test with a quantifier ("1", "+" or "*", greedy),   *)
(* or the zero-width word boundary \b.                                     *)

Lit(c)      == [k |-> "lit",   S |-> {c}, q |-> "1"]    \* the character c
Sp(q)       == [k |-> "space", S |-> {},  q |-> q]      \* \s
Word(q)     == [k |-> "word",  S |-> {},  q |-> q]      \* \w
Dot(q)      == [k |-> "any",   S |-> {},  q |-> q]      \* .
AZ(q)       == [k |-> "az",    S |-> {},  q |-> q]      \* [a-z]
NotIn(S, q) == [k |-> "notin", S |-> S,   q |-> q]      \* [^...]
WordB       == [k |-> "wb",    S |-> {},  q |-> "1"]    \* \b

\* a run of literal characters
Lits(s) == [i \in 1..Len(s) |-> Lit(s[i])]

\* the characters that re.IGNORECASE takes for the lowercase character lo,
\* k being the row of ExtraCases for lo
FixesAt(lo, k) ==
    IF k > 0 /\ ExtraCases[k][1] = lo THEN ExtraCases[k][2] ELSE {}

Fixes(lo) == FixesAt(lo, RowOf(ExtraCases, lo))

\* does re.IGNORECASE take the lowercase characters ld and lc for the same
SameLower(ld, lc) == lc = ld \/ lc \in Fixes(ld)

\* under re.IGNORECASE, is character c the literal character d
SameLetter(d, c) == SameLower(ToLower(d), ToLower(c))

\* is c one of the characters S of a pattern (ic: re.IGNORECASE)
AmongLetters(S, c, ic) ==
    IF ic THEN \E d \in S : SameLetter(d, c) ELSE c \in S

\* does item it accept character c (ic: re.IGNORECASE)
Accepts(it, c, ic) ==
    CASE it.k = "space" -> c \in Whitespace
      [] it.k = "word"  -> IsWordCh(c)
      [] it.k = "any"   -> c # 10
      [] it.k \in {"lit", "az", "notin"} ->
             AmongLetters(IF it.k = "az" THEN 97..122 ELSE it.S, c, ic)
                 # (it.k = "notin")
      [] OTHER          -> FALSE

\* \b at position i (between s[i-1] and s[i])
AtWordBoundary(s, i) ==
    LET before == i > 1 /\ IsWordCh(s[i - 1])
        after  == i <= Len(s) /\ IsWordCh(s[i])
    IN  before # after

\* the number of consecutive characters from position i that it accepts
RunLen(it, s, i, ic) ==
    SetMax({n \in 0..(Len(s) - i + 1) :
                \A m \in 0..(n - 1) : Accepts(it, s[i + m], ic)})

\* Backtracking match of pat[k..] at position i: the position after the
\* match, or 0 when there is none.  A quantified item takes the longest run
\* that lets the rest of the pattern match.
RECURSIVE MatchAt(_, _, _, _, _)
MatchAt(pat, k, s, i, ic) ==
    IF k > Len(pat) THEN i
    ELSE LET it == pat[k] IN
         IF it.k = "wb"
         THEN IF AtWordBoundary(s, i) THEN MatchAt(pat, k + 1, s, i, ic) ELSE 0
         ELSE IF it.q = "1"
         THEN IF i <= Len(s) /\ Accepts(it, s[i], ic)
              THEN MatchAt(pat, k + 1, s, i + 1, ic) ELSE 0
         ELSE LET lo == IF it.q = "+" THEN 1 ELSE 0
                  ok == {n \in lo..RunLen(it, s, i, ic) :
                            MatchAt(pat, k + 1, s, i + n, ic) # 0}
              IN  IF ok = {} THEN 0
                  ELSE MatchAt(pat, k + 1, s, i + SetMax(ok), ic)

\* the start positions at which pat matches
MatchStarts(pat, s, ic) ==
    {i \in 1..(Len(s) + 1) : MatchAt(pat, 1, s, i, ic) # 0}

\* re.search(pat, s) is not None
re_search(pat, s, ic) == MatchStarts(pat, s, ic) # {}

\* re.findall(pat, s): here only its emptiness and element [0], the leftmost
\* match, are used
re_findall_nonempty(pat, s, ic) == MatchStarts(pat, s, ic) # {}

re_findall_0(pat, s, ic) ==
    LET i == SetMin(MatchStarts(pat, s, ic))
    IN  SubSeq(s, i, MatchAt(pat, 1, s, i, ic) - 1)

-----------------------------------------------------------------------------
(* The pattern tables of analyze_command *)

dangerous_patterns == <<
    \* rm\s+-rf\s+/
    [pattern |-> Lits(<<114, 109>> (* rm *)) \o <<Sp("+")>> \o Lits(<<45, 114, 102>> (* -rf *)) \o <<Sp("+")>> \o Lits(<<47>> (* / *)),
     risk |-> "DANGER",
     message |-> "Using rm -rf on root directory can delete entire system"],
    \* rm\s+-rf\s+\*
    [pattern |-> Lits(<<114, 109>> (* rm *)) \o <<Sp("+")>> \o Lits(<<45, 114, 102>> (* -rf *)) \o <<Sp("+")>> \o Lits(<<42>> (* * *)),
     risk |-> "DANGER",
     message |-> "Using rm -rf * can delete all files in current directory"],
    \* rm\s+-rf\s+/home
    [pattern |-> Lits(<<114, 109>> (* rm *)) \o <<Sp("+")>> \o Lits(<<45, 114, 102>> (* -rf *)) \o <<Sp("+")>> \o Lits(<<47, 104, 111, 109, 101>> (* /home *)),
     risk |-> "HIGH",
     message |-> "Deleting /home directory affects all user data"],
    \* chmod\s+777\s+
    [pattern |-> Lits(<<99, 104, 109, 111, 100>> (* chmod *)) \o <<Sp("+")>> \o Lits(<<55, 55, 55>> (* 777 *)) \o <<Sp("+")>>,
     risk |-> "MEDIUM",
     message |-> "Setting permissions to 777 gives full access to everyone"],
    \* sudo\s+.*rm\s+-rf
    [pattern |-> Lits(<<115, 117, 100, 111>> (* sudo *)) \o <<Sp("+"), Dot("*")>> \o Lits(<<114, 109>> (* rm *)) \o <<Sp("+")>> \o Lits(<<45, 114, 102>> (* -rf *)),
     risk |-> "CRITICAL",
     message |-> "Combining sudo with rm -rf is extremely dangerous"],
    \* >\s*/dev/sd[a-z]
    [pattern |-> Lits(<<62>> (* > *)) \o <<Sp("*")>> \o Lits(<<47, 100, 101, 118, 47, 115, 100>> (* /dev/sd *)) \o <<AZ("1")>>,
     risk |-> "CRITICAL",
     message |-> "Writing to disk device can destroy partition"],
    \* dd\s+if=.*of=/dev/sd[a-z]
    [pattern |-> Lits(<<100, 100>> (* dd *)) \o <<Sp("+")>> \o Lits(<<105, 102, 61>> (* if= *)) \o <<Dot("*")>> \o Lits(<<111, 102, 61, 47, 100, 101, 118, 47, 115, 100>> (* of=/dev/sd *)) \o <<AZ("1")>>,
     risk |-> "CRITICAL",
     message |-> "dd command can overwrite entire disks"],
    \* curl\s+.*\|\s*bash
    [pattern |-> Lits(<<99, 117, 114, 108>> (* curl *)) \o <<Sp("+"), Dot("*")>> \o Lits(<<124>> (* | *)) \o <<Sp("*")>> \o Lits(<<98, 97, 115, 104>> (* bash *)),
     risk |-> "HIGH",
     message |-> "Piping curl output to bash can execute malicious code"],
    \* wget\s+.*\|\s*bash
    [pattern |-> Lits(<<119, 103, 101, 116>> (* wget *)) \o <<Sp("+"), Dot("*")>> \o Lits(<<124>> (* | *)) \o <<Sp("*")>> \o Lits(<<98, 97, 115, 104>> (* bash *)),
     risk |-> "HIGH",
     message |-> "Piping wget output to bash can execute malicious code"],
    \* ssh\s+.*-o\s+StrictHostKeyChecking=no
    [pattern |-> Lits(<<115, 115, 104>> (* ssh *)) \o <<Sp("+"), Dot("*")>> \o Lits(<<45, 111>> (* -o *)) \o <<Sp("+")>> \o Lits(<<83, 116, 114, 105, 99, 116, 72, 111, 115, 116, 75, 101, 121, 67, 104, 101, 99, 107, 105, 110, 103, 61, 110, 111>> (* StrictHostKeyChecking=no *)),
     risk |-> "MEDIUM",
     message |-> "Disabling host key checking is insecure"],
    \* mysql\s+.*-p\s*[^-]
    [pattern |-> Lits(<<109, 121, 115, 113, 108>> (* mysql *)) \o <<Sp("+"), Dot("*")>> \o Lits(<<45, 112>> (* -p *)) \o <<Sp("*"), NotIn({45}, "1")>>,
     risk |-> "MEDIUM",
     message |-> "Password in command line is visible in process list"],
    \* psql\s+.*-W
    [pattern |-> Lits(<<112, 115, 113, 108>> (* psql *)) \o <<Sp("+"), Dot("*")>> \o Lits(<<45, 87>> (* -W *)),
     risk |-> "MEDIUM",
     message |-> "Password prompt might be insecure"],
    \* find\s+.*-exec\s+rm
    [pattern |-> Lits(<<102, 105, 110, 100>> (* find *)) \o <<Sp("+"), Dot("*")>> \o Lits(<<45, 101, 120, 101, 99>> (* -exec *)) \o <<Sp("+")>> \o Lits(<<114, 109>> (* rm *)),
     risk |-> "MEDIUM",
     message |-> "find with -exec rm can be dangerous if not careful"],
    \* chown\s+.*:\s*
    [pattern |-> Lits(<<99, 104, 111, 119, 110>> (* chown *)) \o <<Sp("+"), Dot("*")>> \o Lits(<<58>> (* : *)) \o <<Sp("*")>>,
     risk |-> "LOW",
     message |-> "Changing ownership - verify target is correct"],
    \* mount\s+.*remount
    [pattern |-> Lits(<<109, 111, 117, 110, 116>> (* mount *)) \o <<Sp("+"), Dot("*")>> \o Lits(<<114, 101, 109, 111, 117, 110, 116>> (* remount *)),
     risk |-> "MEDIUM",
     message |-> "Remounting can affect system stability"] >>

best_practices == <<
    \* cp\s+.*\s+.*
    [pattern |-> Lits(<<99, 112>> (* cp *)) \o <<Sp("+"), Dot("*"), Sp("+"), Dot("*")>>,
     suggestion |-> "Consider using rsync for large file operations"],
    \* tar\s+.*
    [pattern |-> Lits(<<116, 97, 114>> (* tar *)) \o <<Sp("+"), Dot("*")>>,
     suggestion |-> "Consider using pigz for faster compression"],
    \* grep\s+.*
    [pattern |-> Lits(<<103, 114, 101, 112>> (* grep *)) \o <<Sp("+"), Dot("*")>>,
     suggestion |-> "Consider using ripgrep (rg) for faster searching"],
    \* find\s+.*
    [pattern |-> Lits(<<102, 105, 110, 100>> (* find *)) \o <<Sp("+"), Dot("*")>>,
     suggestion |-> "Consider using fd for faster file finding"],
    \* ls\s+-la
    [pattern |-> Lits(<<108, 115>> (* ls *)) \o <<Sp("+")>> \o Lits(<<45, 108, 97>> (* -la *)),
     suggestion |-> "Consider using exa or lsd for better output"],
    \* cat\s+.*\|\s*grep
    [pattern |-> Lits(<<99, 97, 116>> (* cat *)) \o <<Sp("+"), Dot("*")>> \o Lits(<<124>> (* | *)) \o <<Sp("*")>> \o Lits(<<103, 114, 101, 112>> (* grep *)),
     suggestion |-> "Consider using grep directly on files"],
    \* ps\s+aux
    [pattern |-> Lits(<<112, 115>> (* ps *)) \o <<Sp("+")>> \o Lits(<<97, 117, 120>> (* aux *)),
     suggestion |-> "Consider using htop or btop for better process monitoring"] >>

\* the words that make sudo unremarkable
sudo_exempt_words == {<<97, 112, 116>> (* apt *), <<121, 117, 109>> (* yum *), <<100, 110, 102>> (* dnf *), <<112, 97, 99, 109, 97, 110>> (* pacman *), <<115, 121, 115, 116, 101, 109, 99, 116, 108>> (* systemctl *)}

\* the dict common_typos, in insertion order
common_typos == <<
    [typo |-> <<103, 101, 114, 112>> (* gerp *),   correction |-> <<103, 114, 101, 112>> (* grep *)],
    [typo |-> <<99, 100, 46, 46>> (* cd.. *),   correction |-> <<99, 100, 32, 46, 46>> (* cd .. *)],
    [typo |-> <<99, 100, 47>> (* cd/ *),    correction |-> <<99, 100, 32, 47>> (* cd / *)],
    [typo |-> <<108, 115, 45, 108, 97>> (* ls-la *),  correction |-> <<108, 115, 32, 45, 108, 97>> (* ls -la *)],
    [typo |-> <<112, 115, 45, 97, 117, 120>> (* ps-aux *), correction |-> <<112, 115, 32, 97, 117, 120>> (* ps aux *)],
    [typo |-> <<116, 111, 112, 124>> (* top| *),   correction |-> <<116, 111, 112, 32, 124>> (* top | *)] >>

python_indicators == {
    <<112, 114, 105, 110, 116, 40>> (* print( *), <<112, 114, 105, 110, 116, 32>> (* print  *), <<100, 101, 102, 32>> (* def  *), <<99, 108, 97, 115, 115, 32>> (* class  *), <<105, 109, 112, 111, 114, 116, 32>> (* import  *), <<102, 114, 111, 109, 32>> (* from  *),
    <<105, 102, 32>> (* if  *), <<102, 111, 114, 32>> (* for  *), <<119, 104, 105, 108, 101, 32>> (* while  *), <<116, 114, 121, 58>> (* try: *), <<101, 120, 99, 101, 112, 116, 58>> (* except: *), <<119, 105, 116, 104, 32>> (* with  *), <<46, 112, 121>> (* .py *),
    <<108, 101, 110, 40>> (* len( *), <<115, 116, 114, 40>> (* str( *), <<105, 110, 116, 40>> (* int( *), <<108, 105, 115, 116, 40>> (* list( *), <<100, 105, 99, 116, 40>> (* dict( *) }

\* _looks_like_python(command)
_looks_like_python(cmd) ==
    \E indicator \in python_indicators : Contains(strip(cmd), indicator)

-----------------------------------------------------------------------------
(* The command strings analysed, each with what ast.parse does on it: it   *)
(* returns a tree ("ok") or raises the exception named, with str(e) = err. *)

ParseTable == {
    [text |-> <<115, 117, 100, 111, 32, 114, 109, 32, 45, 114, 102, 32, 47>> (* sudo rm -rf / *),
     parse |-> "SyntaxError", err |-> <<105, 110, 118, 97, 108, 105, 100, 32, 115, 121, 110, 116, 97, 120, 32, 40, 60, 117, 110, 107, 110, 111, 119, 110, 62, 44, 32, 108, 105, 110, 101, 32, 49, 41>> (* invalid syntax (<unknown>, line 1) *)],
    [text |-> <<108, 115, 32, 45, 108, 97>> (* ls -la *),
     parse |-> "ok", err |-> <<>>],
    [text |-> <<99, 100, 46, 46>> (* cd.. *),
     parse |-> "SyntaxError", err |-> <<105, 110, 118, 97, 108, 105, 100, 32, 115, 121, 110, 116, 97, 120, 32, 40, 60, 117, 110, 107, 110, 111, 119, 110, 62, 44, 32, 108, 105, 110, 101, 32, 49, 41>> (* invalid syntax (<unknown>, line 1) *)],
    [text |-> <<114, 109, 32, 45, 114, 102, 32, 47>> (* rm -rf / *),
     parse |-> "SyntaxError", err |-> <<105, 110, 118, 97, 108, 105, 100, 32, 115, 121, 110, 116, 97, 120, 32, 40, 60, 117, 110, 107, 110, 111, 119, 110, 62, 44, 32, 108, 105, 110, 101, 32, 49, 41>> (* invalid syntax (<unknown>, line 1) *)],
    [text |-> <<114, 109, 32, 45, 114, 102, 32, 42>> (* rm -rf * *),
     parse |-> "SyntaxError", err |-> <<105, 110, 118, 97, 108, 105, 100, 32, 115, 121, 110, 116, 97, 120, 32, 40, 60, 117, 110, 107, 110, 111, 119, 110, 62, 44, 32, 108, 105, 110, 101, 32, 49, 41>> (* invalid syntax (<unknown>, line 1) *)],
    [text |-> <<114, 109, 32, 45, 114, 102, 32, 47, 104, 111, 109, 101>> (* rm -rf /home *),
     parse |-> "ok", err |-> <<>>],
    [text |-> <<99, 104, 109, 111, 100, 32, 55, 55, 55, 32, 102>> (* chmod 777 f *),
     parse |-> "SyntaxError", err |-> <<105, 110, 118, 97, 108, 105, 100, 32, 115, 121, 110, 116, 97, 120, 32, 40, 60, 117, 110, 107, 110, 111, 119, 110, 62, 44, 32, 108, 105, 110, 101, 32, 49, 41>> (* invalid syntax (<unknown>, line 1) *)],
    [text |-> <<99, 104, 111, 119, 110, 32, 97, 58, 32, 120, 46, 112, 121>> (* chown a: x.py *),
     parse |-> "SyntaxError", err |-> <<105, 110, 118, 97, 108, 105, 100, 32, 115, 121, 110, 116, 97, 120, 32, 40, 60, 117, 110, 107, 110, 111, 119, 110, 62, 44, 32, 108, 105, 110, 101, 32, 49, 41>> (* invalid syntax (<unknown>, line 1) *)],
    [text |-> <<99, 104, 111, 119, 110, 32, 97, 58, 98>> (* chown a:b *),
     parse |-> "SyntaxError", err |-> <<105, 110, 118, 97, 108, 105, 100, 32, 115, 121, 110, 116, 97, 120, 32, 40, 60, 117, 110, 107, 110, 111, 119, 110, 62, 44, 32, 108, 105, 110, 101, 32, 49, 41>> (* invalid syntax (<unknown>, line 1) *)],
    [text |-> <<112, 114, 105, 110, 116, 40, 41, 59, 40, 120, 41>> (* print();(x) *),
     parse |-> "ok", err |-> <<>>],
    [text |-> <<112, 114, 105, 110, 116, 32, 120>> (* print x *),
     parse |-> "SyntaxError", err |-> <<77, 105, 115, 115, 105, 110, 103, 32, 112, 97, 114, 101, 110, 116, 104, 101, 115, 101, 115, 32, 105, 110, 32, 99, 97, 108, 108, 32, 116, 111, 32, 39, 112, 114, 105, 110, 116, 39, 46, 32, 68, 105, 100, 32, 121, 111, 117, 32, 109, 101, 97, 110, 32, 112, 114, 105, 110, 116, 40, 46, 46, 46, 41, 63, 32, 40, 60, 117, 110, 107, 110, 111, 119, 110, 62, 44, 32, 108, 105, 110, 101, 32, 49, 41>> (* Missing parentheses in call to 'print'. Did you mean print(...)? (<unknown>, line 1) *)],
    [text |-> <<112, 114, 105, 110, 116, 40, 120, 41>> (* print(x) *),
     parse |-> "ok", err |-> <<>>],
    [text |-> <<112, 114, 105, 110, 116, 40, 39, 97, 39, 41>> (* print('a') *),
     parse |-> "ok", err |-> <<>>],
    [text |-> <<120, 32, 61, 32, 39, 112, 114, 105, 110, 116, 32, 97, 39>> (* x = 'print a' *),
     parse |-> "ok", err |-> <<>>],
    [text |-> <<120, 32, 61, 32, 39, 112, 114, 105, 110, 116, 32, 97, 39, 59, 32, 112, 114, 105, 110, 116, 40, 41, 59, 40, 120, 41>> (* x = 'print a'; print();(x) *),
     parse |-> "ok", err |-> <<>>],
    [text |-> <<99, 117, 114, 108, 32, 117, 32, 124, 32, 98, 97, 115, 104>> (* curl u | bash *),
     parse |-> "SyntaxError", err |-> <<105, 110, 118, 97, 108, 105, 100, 32, 115, 121, 110, 116, 97, 120, 32, 40, 60, 117, 110, 107, 110, 111, 119, 110, 62, 44, 32, 108, 105, 110, 101, 32, 49, 41>> (* invalid syntax (<unknown>, line 1) *)],
    [text |-> <<119, 103, 101, 116, 32, 117, 32, 124, 98, 97, 115, 104>> (* wget u |bash *),
     parse |-> "SyntaxError", err |-> <<105, 110, 118, 97, 108, 105, 100, 32, 115, 121, 110, 116, 97, 120, 32, 40, 60, 117, 110, 107, 110, 111, 119, 110, 62, 44, 32, 108, 105, 110, 101, 32, 49, 41>> (* invalid syntax (<unknown>, line 1) *)],
    [text |-> <<115, 117, 100, 111, 32, 97, 112, 116, 32, 105, 110, 115, 116, 97, 108, 108, 32, 120>> (* sudo apt install x *),
     parse |-> "SyntaxError", err |-> <<105, 110, 118, 97, 108, 105, 100, 32, 115, 121, 110, 116, 97, 120, 32, 40, 60, 117, 110, 107, 110, 111, 119, 110, 62, 44, 32, 108, 105, 110, 101, 32, 49, 41>> (* invalid syntax (<unknown>, line 1) *)],
    [text |-> <<83, 85, 68, 79, 32, 82, 77, 32, 45, 82, 70, 32, 47>> (* SUDO RM -RF / *),
     parse |-> "SyntaxError", err |-> <<105, 110, 118, 97, 108, 105, 100, 32, 115, 121, 110, 116, 97, 120, 32, 40, 60, 117, 110, 107, 110, 111, 119, 110, 62, 44, 32, 108, 105, 110, 101, 32, 49, 41>> (* invalid syntax (<unknown>, line 1) *)],
    [text |-> <<71, 69, 82, 80, 32, 120>> (* GERP x *),
     parse |-> "SyntaxError", err |-> <<105, 110, 118, 97, 108, 105, 100, 32, 115, 121, 110, 116, 97, 120, 32, 40, 60, 117, 110, 107, 110, 111, 119, 110, 62, 44, 32, 108, 105, 110, 101, 32, 49, 41>> (* invalid syntax (<unknown>, line 1) *)],
    [text |-> <<103, 101, 114, 112, 32, 120>> (* gerp x *),
     parse |-> "SyntaxError", err |-> <<105, 110, 118, 97, 108, 105, 100, 32, 115, 121, 110, 116, 97, 120, 32, 40, 60, 117, 110, 107, 110, 111, 119, 110, 62, 44, 32, 108, 105, 110, 101, 32, 49, 41>> (* invalid syntax (<unknown>, line 1) *)],
    [text |-> <<67, 68, 46, 46>> (* CD.. *),
     parse |-> "SyntaxError", err |-> <<105, 110, 118, 97, 108, 105, 100, 32, 115, 121, 110, 116, 97, 120, 32, 40, 60, 117, 110, 107, 110, 111, 119, 110, 62, 44, 32, 108, 105, 110, 101, 32, 49, 41>> (* invalid syntax (<unknown>, line 1) *)],
    [text |-> <<116, 111, 112, 124, 32, 103, 101, 114, 112, 32, 120>> (* top| gerp x *),
     parse |-> "SyntaxError", err |-> <<105, 110, 118, 97, 108, 105, 100, 32, 115, 121, 110, 116, 97, 120, 32, 40, 60, 117, 110, 107, 110, 111, 119, 110, 62, 44, 32, 108, 105, 110, 101, 32, 49, 41>> (* invalid syntax (<unknown>, line 1) *)],
    [text |-> <<108, 115, 45, 108, 97>> (* ls-la *),
     parse |-> "ok", err |-> <<>>],
    [text |-> <<112, 115, 45, 97, 117, 120>> (* ps-aux *),
     parse |-> "ok", err |-> <<>>],
    [text |-> <<99, 100, 47>> (* cd/ *),
     parse |-> "SyntaxError", err |-> <<105, 110, 118, 97, 108, 105, 100, 32, 115, 121, 110, 116, 97, 120, 32, 40, 60, 117, 110, 107, 110, 111, 119, 110, 62, 44, 32, 108, 105, 110, 101, 32, 49, 41>> (* invalid syntax (<unknown>, line 1) *)],
    [text |-> <<99, 104, 109, 111, 100, 32, 55, 55, 55, 32, 97, 59, 32, 115, 117, 100, 111, 32, 114, 109, 32, 45, 114, 102, 32, 98>> (* chmod 777 a; sudo rm -rf b *),
     parse |-> "SyntaxError", err |-> <<105, 110, 118, 97, 108, 105, 100, 32, 115, 121, 110, 116, 97, 120, 32, 40, 60, 117, 110, 107, 110, 111, 119, 110, 62, 44, 32, 108, 105, 110, 101, 32, 49, 41>> (* invalid syntax (<unknown>, line 1) *)],
    [text |-> <<115, 117, 100, 111, 32, 114, 109, 32, 45, 114, 102, 32, 98, 59, 32, 99, 117, 114, 108, 32, 117, 32, 124, 32, 98, 97, 115, 104>> (* sudo rm -rf b; curl u | bash *),
     parse |-> "SyntaxError", err |-> <<105, 110, 118, 97, 108, 105, 100, 32, 115, 121, 110, 116, 97, 120, 32, 40, 60, 117, 110, 107, 110, 111, 119, 110, 62, 44, 32, 108, 105, 110, 101, 32, 49, 41>> (* invalid syntax (<unknown>, line 1) *)],
    [text |-> <<114, 109, 32, 45, 114, 102, 32, 47, 104, 111, 109, 101, 59, 32, 99, 104, 109, 111, 100, 32, 55, 55, 55, 32, 102>> (* rm -rf /home; chmod 777 f *),
     parse |-> "SyntaxError", err |-> <<105, 110, 118, 97, 108, 105, 100, 32, 115, 121, 110, 116, 97, 120, 32, 40, 60, 117, 110, 107, 110, 111, 119, 110, 62, 44, 32, 108, 105, 110, 101, 32, 49, 41>> (* invalid syntax (<unknown>, line 1) *)],
    [text |-> <<99, 97, 116, 32, 102, 32, 124, 32, 103, 114, 101, 112, 32, 120>> (* cat f | grep x *),
     parse |-> "SyntaxError", err |-> <<105, 110, 118, 97, 108, 105, 100, 32, 115, 121, 110, 116, 97, 120, 32, 40, 60, 117, 110, 107, 110, 111, 119, 110, 62, 44, 32, 108, 105, 110, 101, 32, 49, 41>> (* invalid syntax (<unknown>, line 1) *)],
    [text |-> <<109, 121, 115, 113, 108, 32, 45, 117, 32, 114, 32, 45, 112, 32, 120>> (* mysql -u r -p x *),
     parse |-> "SyntaxError", err |-> <<105, 110, 118, 97, 108, 105, 100, 32, 115, 121, 110, 116, 97, 120, 32, 40, 60, 117, 110, 107, 110, 111, 119, 110, 62, 44, 32, 108, 105, 110, 101, 32, 49, 41>> (* invalid syntax (<unknown>, line 1) *)],
    [text |-> <<112, 115, 113, 108, 32, 45, 85, 32, 117, 32, 45, 87>> (* psql -U u -W *),
     parse |-> "SyntaxError", err |-> <<105, 110, 118, 97, 108, 105, 100, 32, 115, 121, 110, 116, 97, 120, 32, 40, 60, 117, 110, 107, 110, 111, 119, 110, 62, 44, 32, 108, 105, 110, 101, 32, 49, 41>> (* invalid syntax (<unknown>, line 1) *)],
    [text |-> <<100, 100, 32, 105, 102, 61, 97, 32, 111, 102, 61, 47, 100, 101, 118, 47, 115, 100, 97>> (* dd if=a of=/dev/sda *),
     parse |-> "SyntaxError", err |-> <<105, 110, 118, 97, 108, 105, 100, 32, 115, 121, 110, 116, 97, 120, 32, 40, 60, 117, 110, 107, 110, 111, 119, 110, 62, 44, 32, 108, 105, 110, 101, 32, 49, 41>> (* invalid syntax (<unknown>, line 1) *)],
    [text |-> <<101, 99, 104, 111, 32, 97, 32, 62, 32, 47, 100, 101, 118, 47, 115, 100, 98>> (* echo a > /dev/sdb *),
     parse |-> "SyntaxError", err |-> <<105, 110, 118, 97, 108, 105, 100, 32, 115, 121, 110, 116, 97, 120, 32, 40, 60, 117, 110, 107, 110, 111, 119, 110, 62, 44, 32, 108, 105, 110, 101, 32, 49, 41>> (* invalid syntax (<unknown>, line 1) *)],
    [text |-> <<>>,
     parse |-> "ok", err |-> <<>>],
    [text |-> <<102, 105, 110, 100, 32, 46, 32, 45, 101, 120, 101, 99, 32, 114, 109, 32, 120>> (* find . -exec rm x *),
     parse |-> "SyntaxError", err |-> <<105, 110, 118, 97, 108, 105, 100, 32, 115, 121, 110, 116, 97, 120, 32, 40, 60, 117, 110, 107, 110, 111, 119, 110, 62, 44, 32, 108, 105, 110, 101, 32, 49, 41>> (* invalid syntax (<unknown>, line 1) *)],
    [text |-> <<97, 32, 98, 32, 99, 32, 100, 32, 101, 32, 102, 32, 103, 32, 104, 32, 105, 32, 106, 32, 107>> (* a b c d e f g h i j k *),
     parse |-> "SyntaxError", err |-> <<105, 110, 118, 97, 108, 105, 100, 32, 115, 121, 110, 116, 97, 120, 32, 40, 60, 117, 110, 107, 110, 111, 119, 110, 62, 44, 32, 108, 105, 110, 101, 32, 49, 41>> (* invalid syntax (<unknown>, line 1) *)],
    [text |-> <<115, 115, 104, 32, 104, 32, 45, 111, 32, 83, 116, 114, 105, 99, 116, 72, 111, 115, 116, 75, 101, 121, 67, 104, 101, 99, 107, 105, 110, 103, 61, 110, 111>> (* ssh h -o StrictHostKeyChecking=no *),
     parse |-> "SyntaxError", err |-> <<105, 110, 118, 97, 108, 105, 100, 32, 115, 121, 110, 116, 97, 120, 32, 40, 60, 117, 110, 107, 110, 111, 119, 110, 62, 44, 32, 108, 105, 110, 101, 32, 49, 41>> (* invalid syntax (<unknown>, line 1) *)],
    [text |-> <<109, 111, 117, 110, 116, 32, 45, 111, 32, 114, 101, 109, 111, 117, 110, 116, 32, 47>> (* mount -o remount / *),
     parse |-> "SyntaxError", err |-> <<105, 110, 118, 97, 108, 105, 100, 32, 115, 121, 110, 116, 97, 120, 32, 40, 60, 117, 110, 107, 110, 111, 119, 110, 62, 44, 32, 108, 105, 110, 101, 32, 49, 41>> (* invalid syntax (<unknown>, line 1) *)],
    [text |-> <<99, 112, 32, 97, 32, 98>> (* cp a b *),
     parse |-> "SyntaxError", err |-> <<105, 110, 118, 97, 108, 105, 100, 32, 115, 121, 110, 116, 97, 120, 32, 40, 60, 117, 110, 107, 110, 111, 119, 110, 62, 44, 32, 108, 105, 110, 101, 32, 49, 41>> (* invalid syntax (<unknown>, line 1) *)],
    [text |-> <<116, 97, 114, 32, 120, 102, 32, 97>> (* tar xf a *),
     parse |-> "SyntaxError", err |-> <<105, 110, 118, 97, 108, 105, 100, 32, 115, 121, 110, 116, 97, 120, 32, 40, 60, 117, 110, 107, 110, 111, 119, 110, 62, 44, 32, 108, 105, 110, 101, 32, 49, 41>> (* invalid syntax (<unknown>, line 1) *)],
    [text |-> <<112, 115, 32, 97, 117, 120>> (* ps aux *),
     parse |-> "SyntaxError", err |-> <<105, 110, 118, 97, 108, 105, 100, 32, 115, 121, 110, 116, 97, 120, 32, 40, 60, 117, 110, 107, 110, 111, 119, 110, 62, 44, 32, 108, 105, 110, 101, 32, 49, 41>> (* invalid syntax (<unknown>, line 1) *)],
    [text |-> <<100, 101, 102, 32, 102, 40, 41, 58, 10, 32, 32, 32, 32, 112, 97, 115, 115>> (* def f():\n    pass *),
     parse |-> "ok", err |-> <<>>],
    [text |-> <<100, 101, 102, 32, 102, 40, 41, 58, 10, 32, 32, 32, 32, 39, 39, 39, 100, 39, 39, 39, 10, 32, 32, 32, 32, 112, 97, 115, 115>> (* def f():\n    '''d'''\n    pass *),
     parse |-> "ok", err |-> <<>>],
    [text |-> <<99, 108, 97, 115, 115, 32, 65, 58, 10, 32, 32, 120, 32, 61, 32, 49>> (* class A:\n  x = 1 *),
     parse |-> "ok", err |-> <<>>],
    [text |-> <<119, 97, 105, 116, 32, 102, 111, 114, 32>> (* wait for  *),
     parse |-> "SyntaxError", err |-> <<105, 110, 118, 97, 108, 105, 100, 32, 115, 121, 110, 116, 97, 120, 32, 40, 60, 117, 110, 107, 110, 111, 119, 110, 62, 44, 32, 108, 105, 110, 101, 32, 49, 41>> (* invalid syntax (<unknown>, line 1) *)],
    [text |-> <<99, 104, 109, 111, 100, 32, 55, 55, 55, 32, 120, 46, 112, 121, 40>> (* chmod 777 x.py( *),
     parse |-> "SyntaxError", err |-> <<39, 40, 39, 32, 119, 97, 115, 32, 110, 101, 118, 101, 114, 32, 99, 108, 111, 115, 101, 100, 32, 40, 60, 117, 110, 107, 110, 111, 119, 110, 62, 44, 32, 108, 105, 110, 101, 32, 49, 41>> (* '(' was never closed (<unknown>, line 1) *)],
    [text |-> <<105, 109, 112, 111, 114, 116, 32, 111, 115>> (* import os *),
     parse |-> "ok", err |-> <<>>],
    [text |-> <<99, 100, 46, 46, 59, 32, 99, 104, 109, 111, 100, 32, 55, 55, 55, 32, 120, 46, 112, 121, 40>> (* cd..; chmod 777 x.py( *),
     parse |-> "SyntaxError", err |-> <<105, 110, 118, 97, 108, 105, 100, 32, 115, 121, 110, 116, 97, 120, 32, 40, 60, 117, 110, 107, 110, 111, 119, 110, 62, 44, 32, 108, 105, 110, 101, 32, 49, 41>> (* invalid syntax (<unknown>, line 1) *)],
    [text |-> <<115, 117, 100, 111, 32, 99, 104, 109, 111, 100, 32, 55, 55, 55, 32, 97, 46, 112, 121, 32, 124, 32, 103, 114, 101, 112, 32, 98, 59, 32, 99, 100, 46, 46>> (* sudo chmod 777 a.py | grep b; cd.. *),
     parse |-> "SyntaxError", err |-> <<105, 110, 118, 97, 108, 105, 100, 32, 115, 121, 110, 116, 97, 120, 32, 40, 60, 117, 110, 107, 110, 111, 119, 110, 62, 44, 32, 108, 105, 110, 101, 32, 49, 41>> (* invalid syntax (<unknown>, line 1) *)],
    [text |-> <<99, 104, 109, 111, 100, 32, 55, 55, 55, 13, 10, 108, 115>> (* chmod 777\r\nls *),
     parse |-> "SyntaxError", err |-> <<105, 110, 118, 97, 108, 105, 100, 32, 115, 121, 110, 116, 97, 120, 32, 40, 60, 117, 110, 107, 110, 111, 119, 110, 62, 44, 32, 108, 105, 110, 101, 32, 49, 41>> (* invalid syntax (<unknown>, line 1) *)],
    [text |-> <<108, 115, 11, 45, 108, 97>> (* ls\x0b-la *),
     parse |-> "SyntaxError", err |-> <<105, 110, 118, 97, 108, 105, 100, 32, 110, 111, 110, 45, 112, 114, 105, 110, 116, 97, 98, 108, 101, 32, 99, 104, 97, 114, 97, 99, 116, 101, 114, 32, 85, 43, 48, 48, 48, 66, 32, 40, 60, 117, 110, 107, 110, 111, 119, 110, 62, 44, 32, 108, 105, 110, 101, 32, 49, 41>> (* invalid non-printable character U+000B (<unknown>, line 1) *)],
    [text |-> <<119, 97, 105, 116, 32, 102, 111, 114, 28>> (* wait for\x1c *),
     parse |-> "SyntaxError", err |-> <<105, 110, 118, 97, 108, 105, 100, 32, 110, 111, 110, 45, 112, 114, 105, 110, 116, 97, 98, 108, 101, 32, 99, 104, 97, 114, 97, 99, 116, 101, 114, 32, 85, 43, 48, 48, 49, 67, 32, 40, 60, 117, 110, 107, 110, 111, 119, 110, 62, 44, 32, 108, 105, 110, 101, 32, 49, 41>> (* invalid non-printable character U+001C (<unknown>, line 1) *)],
    [text |-> <<97, 12, 98, 32, 99, 32, 100, 32, 101, 32, 102, 32, 103, 32, 104, 32, 105, 32, 106, 32, 107>> (* a\x0cb c d e f g h i j k *),
     parse |-> "SyntaxError", err |-> <<105, 110, 118, 97, 108, 105, 100, 32, 115, 121, 110, 116, 97, 120, 32, 40, 60, 117, 110, 107, 110, 111, 119, 110, 62, 44, 32, 108, 105, 110, 101, 32, 49, 41>> (* invalid syntax (<unknown>, line 1) *)],
    [text |-> <<112, 114, 105, 110, 116, 40, 39, 56448, 39, 41>> (* print('\udc80') *),
     parse |-> "UnicodeEncodeError", err |-> <<39, 117, 116, 102, 45, 56, 39, 32, 99, 111, 100, 101, 99, 32, 99, 97, 110, 39, 116, 32, 101, 110, 99, 111, 100, 101, 32, 99, 104, 97, 114, 97, 99, 116, 101, 114, 32, 39, 92, 117, 100, 99, 56, 48, 39, 32, 105, 110, 32, 112, 111, 115, 105, 116, 105, 111, 110, 32, 55, 58, 32, 115, 117, 114, 114, 111, 103, 97, 116, 101, 115, 32, 110, 111, 116, 32, 97, 108, 108, 111, 119, 101, 100>> (* 'utf-8' codec can't encode character '\\udc80' in position 7: surrogates not allowed *)],
    [text |-> <<108, 115, 160, 45, 108, 97>> (* ls\xa0-la *),
     parse |-> "SyntaxError", err |-> <<105, 110, 118, 97, 108, 105, 100, 32, 110, 111, 110, 45, 112, 114, 105, 110, 116, 97, 98, 108, 101, 32, 99, 104, 97, 114, 97, 99, 116, 101, 114, 32, 85, 43, 48, 48, 65, 48, 32, 40, 60, 117, 110, 107, 110, 111, 119, 110, 62, 44, 32, 108, 105, 110, 101, 32, 49, 41>> (* invalid non-printable character U+00A0 (<unknown>, line 1) *)],
    [text |-> <<383, 117, 100, 111, 32, 114, 109, 32, 45, 114, 102, 32, 47>> (* \u017fudo rm -rf / *),
     parse |-> "SyntaxError", err |-> <<105, 110, 118, 97, 108, 105, 100, 32, 115, 121, 110, 116, 97, 120, 32, 40, 60, 117, 110, 107, 110, 111, 119, 110, 62, 44, 32, 108, 105, 110, 101, 32, 49, 41>> (* invalid syntax (<unknown>, line 1) *)],
    [text |-> <<119, 97, 105, 116, 32, 102, 111, 114, 32, 160>> (* wait for \xa0 *),
     parse |-> "SyntaxError", err |-> <<105, 110, 118, 97, 108, 105, 100, 32, 110, 111, 110, 45, 112, 114, 105, 110, 116, 97, 98, 108, 101, 32, 99, 104, 97, 114, 97, 99, 116, 101, 114, 32, 85, 43, 48, 48, 65, 48, 32, 40, 60, 117, 110, 107, 110, 111, 119, 110, 62, 44, 32, 108, 105, 110, 101, 32, 49, 41>> (* invalid non-printable character U+00A0 (<unknown>, line 1) *)],
    [text |-> <<97, 8232, 98, 32, 99, 32, 100, 32, 101, 32, 102, 32, 103, 32, 104, 32, 105, 32, 106, 32, 107>> (* a\u2028b c d e f g h i j k *),
     parse |-> "SyntaxError", err |-> <<105, 110, 118, 97, 108, 105, 100, 32, 110, 111, 110, 45, 112, 114, 105, 110, 116, 97, 98, 108, 101, 32, 99, 104, 97, 114, 97, 99, 116, 101, 114, 32, 85, 43, 50, 48, 50, 56, 32, 40, 60, 117, 110, 107, 110, 111, 119, 110, 62, 44, 32, 108, 105, 110, 101, 32, 49, 41>> (* invalid non-printable character U+2028 (<unknown>, line 1) *)],
    [text |-> <<120, 32, 61, 32, 39, 112, 114, 105, 110, 116, 32, 233, 39>> (* x = 'print \xe9' *),
     parse |-> "ok", err |-> <<>>],
    [text |-> <<913, 931, 32, 83, 85, 68, 79, 32, 304>> (* \u0391\u03a3 SUDO \u0130 *),
     parse |-> "SyntaxError", err |-> <<105, 110, 118, 97, 108, 105, 100, 32, 115, 121, 110, 116, 97, 120, 32, 40, 60, 117, 110, 107, 110, 111, 119, 110, 62, 44, 32, 108, 105, 110, 101, 32, 49, 41>> (* invalid syntax (<unknown>, line 1) *)],
    [text |-> <<100, 100, 32, 105, 102, 61, 97, 32, 111, 102, 61, 47, 100, 101, 118, 47, 115, 100, 8490>> (* dd if=a of=/dev/sd\u212a *),
     parse |-> "SyntaxError", err |-> <<105, 110, 118, 97, 108, 105, 100, 32, 115, 121, 110, 116, 97, 120, 32, 40, 60, 117, 110, 107, 110, 111, 119, 110, 62, 44, 32, 108, 105, 110, 101, 32, 49, 41>> (* invalid syntax (<unknown>, line 1) *)],
    [text |-> <<101, 99, 104, 111, 32, 97, 32, 62, 32, 47, 100, 101, 118, 47, 115, 100, 233>> (* echo a > /dev/sd\xe9 *),
     parse |-> "SyntaxError", err |-> <<105, 110, 118, 97, 108, 105, 100, 32, 115, 121, 110, 116, 97, 120, 32, 40, 60, 117, 110, 107, 110, 111, 119, 110, 62, 44, 32, 108, 105, 110, 101, 32, 49, 41>> (* invalid syntax (<unknown>, line 1) *)] }

Commands == {row.text : row \in ParseTable}

\* ast.parse(source): "ok", or the exception raised
ast_parse(source) == (CHOOSE row \in ParseTable : row.text = source).parse

\* str(e) of the exception raised by ast.parse(source)
ast_parse_error(source) == (CHOOSE row \in ParseTable : row.text = source).err

-----------------------------------------------------------------------------
(* _analyze_python_syntax *)

\* \bprint\s+\w+
print_statement_re == <<WordB>> \o Lits(<<112, 114, 105, 110, 116>> (* print *)) \o <<Sp("+"), Word("+")>>

\* print\([^"\']*\w+[^"\']*\)
print_unquoted_re ==
    Lits(<<112, 114, 105, 110, 116, 40>> (* print( *)) \o <<NotIn({34, 39}, "*"), Word("+"), NotIn({34, 39}, "*")>>
        \o Lits(<<41>> (* ) *))

\* print\([^)]+\)
print_call_re == Lits(<<112, 114, 105, 110, 116, 40>> (* print( *)) \o <<NotIn({41}, "+")>> \o Lits(<<41>> (* ) *))

\* an issue of analyze_command
CommandIssue(type, risk, fmt, args, part) ==
    [type |-> type, risk |-> risk, message |-> [fmt |-> fmt, args |-> args],
     command_part |-> part]

\* the check for print statements without parentheses (lines 166-172): the
\* issues it appends
PrintStatementIssues(cmd) ==
    IF re_search(print_statement_re, cmd, FALSE)
    THEN <<CommandIssue("SYNTAX", "MEDIUM",
               "Python 3 requires parentheses for print statements: print(\"hello\")",
               <<>>, re_findall_0(print_statement_re, cmd, FALSE))>>
    ELSE <<>>

\* `if not ('"' in print_match or "'" in print_match)` (lines 177-183): the
\* issues it appends
UnquotedIssues(print_match) ==
    IF ~(\E i \in 1..Len(print_match) : print_match[i] \in {34, 39})
    THEN <<CommandIssue("SYNTAX", "MEDIUM",
               "String literals in print statements should be enclosed in quotes",
               <<>>, print_match)>>
    ELSE <<>>

\* the check for print() without quotes (lines 175-183): the exception it
\* raises, IndexError from [][0], and the issues it appends
PrintCallCheck(cmd) ==
    IF ~re_search(print_unquoted_re, cmd, FALSE)
    THEN [exc |-> "none", issues |-> <<>>]
    ELSE IF ~re_findall_nonempty(print_call_re, cmd, FALSE)
    THEN [exc |-> "IndexError", issues |-> <<>>]
    ELSE [exc |-> "none",
          issues |-> UnquotedIssues(re_findall_0(print_call_re, cmd, FALSE))]

\* the two checks after a successful parse, `first` being the issues of the
\* first and call the outcome of the second
AfterParse(first, call) == [exc |-> call.exc, issues |-> first \o call.issues]

\* the body of the try statement (lines 162-183): the exception that leaves
\* it, "none" when none does, and the issues appended before it
SyntaxTryBody(cmd) ==
    IF ast_parse(cmd) # "ok" THEN [exc |-> ast_parse(cmd), issues |-> <<>>]
    ELSE AfterParse(PrintStatementIssues(cmd), PrintCallCheck(cmd))

\* str(e) for the exceptions of SyntaxTryBody: IndexError comes from [][0],
\* every other exception from ast.parse
ExceptionText(cmd, exc) ==
    IF exc = "IndexError" THEN <<108, 105, 115, 116, 32, 105, 110, 100, 101, 120, 32, 111, 117, 116, 32, 111, 102, 32, 114, 97, 110, 103, 101>> (* list index out of range *)
    ELSE ast_parse_error(cmd)

\* the classes caught by `except Exception`
ExceptionSubclasses ==
    {"SyntaxError", "IndexError", "ValueError", "UnicodeEncodeError",
     "RecursionError", "MemoryError"}

\* the except clauses with `except SyntaxError` as the only one
ExceptClauses_syntax_only(cmd, body) ==
    IF body.exc = "none" THEN [raised |-> FALSE, issues |-> body.issues]
    ELSE IF body.exc = "SyntaxError"
    THEN [raised |-> FALSE, issues |-> Append(body.issues,
             CommandIssue("SYNTAX", "MEDIUM", "Syntax error: {str(e)}",
                          <<ExceptionText(cmd, body.exc)>>, cmd))]
    ELSE [raised |-> TRUE, issues |-> body.issues]

\* the except clauses with `except Exception` as the only one
ExceptClauses_generic_only(cmd, body) ==
    IF body.exc = "none" THEN [raised |-> FALSE, issues |-> body.issues]
    ELSE IF body.exc \in ExceptionSubclasses
    THEN [raised |-> FALSE, issues |-> Append(body.issues,
             CommandIssue("ERROR", "MEDIUM", "Python parsing error: {str(e)}",
                          <<ExceptionText(cmd, body.exc)>>, cmd))]
    ELSE [raised |-> TRUE, issues |-> body.issues]

\* the except clauses (lines 185-198) for the outcome `body` of the try
\* body: the list that is returned, or raised = TRUE when the exception
\* leaves the function
ExceptClauses(cmd, body) ==
    IF body.exc = "none" THEN [raised |-> FALSE, issues |-> body.issues]
    ELSE IF body.exc = "SyntaxError"
    THEN [raised |-> FALSE, issues |-> Append(body.issues,
             CommandIssue("SYNTAX", "MEDIUM", "Syntax error: {str(e)}",
                          <<ExceptionText(cmd, body.exc)>>, cmd))]
    ELSE IF body.exc \in ExceptionSubclasses
    THEN [raised |-> FALSE, issues |-> Append(body.issues,
             CommandIssue("ERROR", "MEDIUM", "Python parsing error: {str(e)}",
                          <<ExceptionText(cmd, body.exc)>>, cmd))]
    ELSE [raised |-> TRUE, issues |-> body.issues]

\* _analyze_python_syntax(command)
_analyze_python_syntax(cmd) == ExceptClauses(cmd, SyntaxTryBody(cmd))

-----------------------------------------------------------------------------
(* _generate_corrected_code *)

IsHeader(line) ==
    startswith(strip(line), <<100, 101, 102, 32>> (* def  *)) \/ startswith(strip(line), <<99, 108, 97, 115, 115, 32>> (* class  *))

\* The scan of the lines after header line i (the inner for-loop): TRUE when
\* it ends by finding a docstring.
RECURSIVE DocstringScan(_, _)
DocstringScan(lines, j) ==
    IF j > Len(lines) THEN FALSE
    ELSE LET next_line == strip(lines[j]) IN
         IF /\ next_line # <<>>
            /\ ~startswith(next_line, <<32>> (*   *))
            /\ ~startswith(next_line, <<9>> (* \t *))
         THEN FALSE                                       \* break
         ELSE IF \/ startswith(next_line, <<34, 34, 34>> (* """ *))
                 \/ startswith(next_line, <<39, 39, 39>> (* ''' *))
         THEN TRUE                                        \* has_docstring
         ELSE DocstringScan(lines, j + 1)

\* the lines appended for line i: the line, then the placeholder if needed
CorrectedFor(lines, i) ==
    LET line == lines[i]
        indent == Len(line) - Len(lstrip(line))
        quotes == Spaces(indent) \o <<32, 32, 32, 32, 34, 34, 34>> (*     """ *)
    IN  IF IsHeader(line) /\ ~DocstringScan(lines, i + 1)
        THEN <<line, quotes,
               Spaces(indent) \o (IF startswith(strip(line), <<100, 101, 102, 32>> (* def  *))
                                  THEN <<32, 32, 32, 32, 70, 117, 110, 99, 116, 105, 111, 110, 32, 100, 101, 115, 99, 114, 105, 112, 116, 105, 111, 110, 46>> (*     Function description. *)
                                  ELSE <<32, 32, 32, 32, 67, 108, 97, 115, 115, 32, 100, 101, 115, 99, 114, 105, 112, 116, 105, 111, 110, 46>> (*     Class description. *)),
               quotes>>
        ELSE <<line>>

RECURSIVE CorrectedLines(_, _)
CorrectedLines(lines, i) ==
    IF i > Len(lines) THEN <<>>
    ELSE CorrectedFor(lines, i) \o CorrectedLines(lines, i + 1)

_generate_corrected_code(cmd) ==
    JoinLines(CorrectedLines(SplitLines(cmd), 1))

-----------------------------------------------------------------------------
(* analyze_command *)

RiskTiers == <<"LOW", "MEDIUM", "HIGH", "CRITICAL">>

\* the list a call starts `issues` with (issues = [])
InitialIssues_shared == issues

InitialIssues == <<>>

\* the if/elif chain that updates risk_level for a matched entry of tier risk
Escalate_medium_unguarded(level, risk) ==
    IF risk = "CRITICAL" THEN "CRITICAL"
    ELSE IF risk = "HIGH" /\ level # "CRITICAL" THEN "HIGH"
    ELSE IF risk = "MEDIUM" THEN "MEDIUM"
    ELSE level

Escalate_high_unguarded(level, risk) ==
    IF risk = "CRITICAL" THEN "CRITICAL"
    ELSE IF risk = "HIGH" THEN "HIGH"
    ELSE IF risk = "MEDIUM" /\ level \notin {"CRITICAL", "HIGH"} THEN "MEDIUM"
    ELSE level

Escalate(level, risk) ==
    IF risk = "CRITICAL" THEN "CRITICAL"
    ELSE IF risk = "HIGH" /\ level # "CRITICAL" THEN "HIGH"
    ELSE IF risk = "MEDIUM" /\ level \notin {"CRITICAL", "HIGH"} THEN "MEDIUM"
    ELSE level

\* `typo in command`
TypoPresent_whole(typo, cmd) == cmd = typo

TypoPresent(typo, cmd) == Contains(cmd, typo)

\* 'sudo' in command.lower() and none of the exempt words in it
SudoUnexplained(cmd) ==
    /\ Contains(lower(cmd), <<115, 117, 100, 111>> (* sudo *))
    /\ ~\E word \in sudo_exempt_words : Contains(lower(cmd), word)

CodeVarsUnchanged == UNCHANGED <<filepath, score, code>>

\* the call: issues = [], suggestions = [], risk_level = "LOW"
CallAnalyzeCommand(c) ==
    /\ pc = "idle"
    /\ command' = c
    /\ issues' = InitialIssues
    /\ suggestions' = <<>>
    /\ risk_level' = "LOW"
    /\ idx' = 1
    /\ result' = <<>>
    /\ pc' = "python_check"
    /\ UNCHANGED last
    /\ CodeVarsUnchanged

\* if _looks_like_python(command): run the syntax check
PythonCheck ==
    /\ pc = "python_check"
    /\ IF _looks_like_python(command)
       THEN LET r == _analyze_python_syntax(command) IN
            IF r.raised
            THEN /\ pc' = "raised"
                 /\ UNCHANGED <<issues, risk_level>>
            ELSE /\ issues' = issues \o r.issues
                 /\ risk_level' = IF r.issues # <<>> THEN "MEDIUM" ELSE risk_level
                 /\ pc' = "dangerous"
       ELSE /\ pc' = "dangerous"
            /\ UNCHANGED <<issues, risk_level>>
    /\ idx' = 1
    /\ UNCHANGED <<command, suggestions, result, last>>
    /\ CodeVarsUnchanged

\* one iteration of `for pattern, risk, message in dangerous_patterns`
DangerousStep ==
    /\ pc = "dangerous"
    /\ LET e == dangerous_patterns[idx] IN
       IF re_search(e.pattern, command, TRUE)
       THEN IF ~re_findall_nonempty(e.pattern, command, TRUE)
            THEN /\ pc' = "raised"                         \* [][0]
                 /\ UNCHANGED <<issues, risk_level, idx>>
            ELSE /\ issues' = Append(issues,
                        CommandIssue("SECURITY", e.risk, e.message, <<>>,
                                     re_findall_0(e.pattern, command, TRUE)))
                 /\ risk_level' = Escalate(risk_level, e.risk)
                 /\ IF idx < Len(dangerous_patterns)
                    THEN idx' = idx + 1 /\ pc' = pc
                    ELSE idx' = 1 /\ pc' = "best_practices"
       ELSE /\ UNCHANGED <<issues, risk_level>>
            /\ IF idx < Len(dangerous_patterns)
               THEN idx' = idx + 1 /\ pc' = pc
               ELSE idx' = 1 /\ pc' = "best_practices"
    /\ UNCHANGED <<command, suggestions, result, last>>
    /\ CodeVarsUnchanged

\* one iteration of `for pattern, suggestion in best_practices`
BestPracticeStep ==
    /\ pc = "best_practices"
    /\ LET e == best_practices[idx] IN
       suggestions' = IF re_search(e.pattern, command, TRUE)
                      THEN Append(suggestions, e.suggestion)
                      ELSE suggestions
    /\ IF idx < Len(best_practices)
       THEN idx' = idx + 1 /\ pc' = pc
       ELSE idx' = 1 /\ pc' = "sudo_check"
    /\ UNCHANGED <<command, issues, risk_level, result, last>>
    /\ CodeVarsUnchanged

\* if 'sudo' in command.lower(): ...
SudoCheck ==
    /\ pc = "sudo_check"
    /\ suggestions' = IF SudoUnexplained(command)
                      THEN Append(suggestions, "Verify if sudo is necessary for this command")
                      ELSE suggestions
    /\ pc' = "pipe_check"
    /\ UNCHANGED <<command, issues, risk_level, idx, result, last>>
    /\ CodeVarsUnchanged

\* if '|' in command: ...
PipeCheck ==
    /\ pc = "pipe_check"
    /\ suggestions' = IF Contains(command, <<124>> (* | *))
                      THEN Append(suggestions,
                          "Consider breaking complex piped commands into separate steps for clarity")
                      ELSE suggestions
    /\ pc' = "length_check"
    /\ UNCHANGED <<command, issues, risk_level, idx, result, last>>
    /\ CodeVarsUnchanged

\* if len(command.split()) > 10: ...
LengthCheck ==
    /\ pc = "length_check"
    /\ suggestions' = IF SplitCount(command) > 10
                      THEN Append(suggestions,
                          "Command is quite long - consider using a script for complex operations")
                      ELSE suggestions
    /\ pc' = "typos"
    /\ idx' = 1
    /\ UNCHANGED <<command, issues, risk_level, result, last>>
    /\ CodeVarsUnchanged

\* the typo loop with issues.insert(0, ...) for issues.append(...)
TypoStep_prepend ==
    /\ pc = "typos"
    /\ LET e == common_typos[idx] IN
       issues' = IF TypoPresent(e.typo, command)
                 THEN <<CommandIssue("TYPO", "LOW",
                                     "Possible typo: {typo} should be {correction}",
                                     <<e.typo, e.correction>>, e.typo)>> \o issues
                 ELSE issues
    /\ IF idx < Len(common_typos)
       THEN idx' = idx + 1 /\ pc' = pc
       ELSE idx' = 1 /\ pc' = "finish"
    /\ UNCHANGED <<command, suggestions, risk_level, result, last>>
    /\ CodeVarsUnchanged

\* one iteration of `for typo, correction in common_typos.items()`
TypoStep ==
    /\ pc = "typos"
    /\ LET e == common_typos[idx] IN
       issues' = IF TypoPresent(e.typo, command)
                 THEN Append(issues,
                        CommandIssue("TYPO", "LOW",
                                     "Possible typo: {typo} should be {correction}",
                                     <<e.typo, e.correction>>, e.typo))
                 ELSE issues
    /\ IF idx < Len(common_typos)
       THEN idx' = idx + 1 /\ pc' = pc
       ELSE idx' = 1 /\ pc' = "finish"
    /\ UNCHANGED <<command, suggestions, risk_level, result, last>>
    /\ CodeVarsUnchanged

\* is_code, corrected_code and the returned dict
CommandResult ==
    LET is_code == _looks_like_python(command) IN
    [command |-> command,
     issues |-> issues,
     suggestions |-> suggestions,
     risk_level |-> risk_level,
     total_issues |-> Len(issues),
     total_suggestions |-> Len(suggestions),
     is_code |-> is_code,
     corrected_code |-> IF is_code THEN _generate_corrected_code(command) ELSE <<>>]

FinishCommand ==
    /\ pc = "finish"
    /\ result' = <<CommandResult>>
    /\ pc' = "done"
    /\ UNCHANGED <<command, issues, suggestions, risk_level, idx, last>>
    /\ CodeVarsUnchanged

\* the caller receives the result; the next call may start
ReturnCommand ==
    /\ pc = "done"
    /\ last' = result
    /\ pc' = "idle"
    /\ UNCHANGED <<command, issues, suggestions, risk_level, idx, result>>
    /\ CodeVarsUnchanged

NoFile == [lint_runs |-> TRUE, lint |-> <<>>, readable |-> TRUE, syntax_ok |-> TRUE,
           parse_exc |-> "none", error_line |-> 0, nodes |-> <<>>, loc |-> 0,
           metrics_fail |-> FALSE, capture_ok |-> TRUE, capture_loc |-> 0]

Init ==
    /\ pc = "idle"
    /\ command = <<>>
    /\ issues = <<>>
    /\ suggestions = <<>>
    /\ risk_level = "LOW"
    /\ idx = 1
    /\ result = <<>>
    /\ last = <<>>
    /\ filepath = NoFile
    /\ score = 100
    /\ code = "unbound"

Next ==
    \/ pc = "idle" /\ \E c \in Commands : CallAnalyzeCommand(c)
    \/ PythonCheck
    \/ DangerousStep
    \/ BestPracticeStep
    \/ SudoCheck
    \/ PipeCheck
    \/ LengthCheck
    \/ TypoStep
    \/ FinishCommand
    \/ ReturnCommand

Spec == Init /\ [][Next]_vars

-----------------------------------------------------------------------------
(* analyze_code.  The analysed file is given by what the collaborators     *)
(* report on it: whether pylint runs and prints JSON (lint_runs) and its   *)
(* findings, each with its type and line (lint; type "<no type>" is a      *)
(* finding without the key), whether the open and read of lines 36-37      *)
(* succeed (readable), whether ast.parse returns a tree for the text       *)
(* (syntax_ok), the exception it raises when not (parse_exc) and that      *)
(* exception's lineno (error_line), the definitions ast.walk meets, each   *)
(* with its name, line and cyclomatic complexity (nodes), the number of    *)
(* lines of the text (loc), whether radon's raw_metrics raises on it       *)
(* (metrics_fail), whether the second open and read, of lines 88-89,       *)
(* succeed (capture_ok) and the number of lines they return (capture_loc,  *)
(* which is not loc when the file was rewritten in between).               *)

MaxLint == 11

MaxNodes == 2

ComplexityLimit == 10

LocLimit == 100

SyntaxErrorPenalty == 20

\* a finding of pylint
Finding(type, line) == [type |-> type, line |-> line]

\* lists of n findings of type "error", and a few mixed ones
LintOutputs ==
    {[i \in 1..n |-> Finding("error", 2 * i + 5)] : n \in 0..MaxLint}
        \cup {<<Finding("warning", 42)>>, <<Finding("convention", 3)>>,
              <<Finding("error", 7), Finding("warning", 7), Finding("convention", 3)>>,
              <<Finding("<no type>", 1)>>,
              <<Finding("error", 9), Finding("<no type>", 9), Finding("warning", 12)>>}

NodeChoices == {
    [kind |-> "FunctionDef",      name |-> <<77, 121, 70, 117, 110, 99>> (* MyFunc *),  complexity |-> 1],
    [kind |-> "FunctionDef",      name |-> <<109, 97, 105, 110>> (* main *),    complexity |-> 1],
    [kind |-> "FunctionDef",      name |-> <<109, 121, 95, 102, 117, 110, 99>> (* my_func *), complexity |-> 11],
    [kind |-> "FunctionDef",      name |-> <<77, 121, 95, 70, 117, 110, 99>> (* My_Func *), complexity |-> 1],
    [kind |-> "FunctionDef",      name |-> <<233, 95, 120>> (* \xe9_x *),     complexity |-> 1],
    [kind |-> "AsyncFunctionDef", name |-> <<77, 121, 70, 117, 110, 99>> (* MyFunc *),  complexity |-> 1],
    [kind |-> "ClassDef",         name |-> <<77, 121, 67, 108, 97, 115, 115>> (* MyClass *), complexity |-> 1],
    [kind |-> "ClassDef",         name |-> <<77, 121, 99, 108, 97, 115, 115>> (* Myclass *), complexity |-> 1],
    [kind |-> "ClassDef",         name |-> <<201, 99, 111, 108, 101>> (* \xc9cole *),   complexity |-> 1] }

\* the definition c as the i-th that ast.walk meets, with its line
NodeAt(c, i) ==
    [kind |-> c.kind, name |-> c.name, complexity |-> c.complexity,
     lineno |-> 3 * i + 1]

NodeLists ==
    UNION {{[i \in 1..n |-> NodeAt(c[i], i)] : c \in [1..n -> NodeChoices]} :
               n \in 0..MaxNodes}

\* the exceptions of ast.parse: SyntaxError, and those of a text too deeply
\* nested for the parser
ParseExceptions == {"SyntaxError", "RecursionError", "MemoryError"}

\* e.lineno of a SyntaxError without a line (a NUL character in the text)
None == -1

Files ==
    {[lint_runs |-> lr, lint |-> l, readable |-> TRUE, syntax_ok |-> TRUE,
      parse_exc |-> "none", error_line |-> None, nodes |-> ns, loc |-> loc,
      metrics_fail |-> mf, capture_ok |-> co,
      capture_loc |-> IF co THEN loc ELSE 0] :
        lr \in {TRUE}, l \in LintOutputs, ns \in NodeLists,
        loc \in {50, 101}, mf \in BOOLEAN, co \in BOOLEAN}
    \cup
    \* a file rewritten between the two reads
    {[lint_runs |-> TRUE, lint |-> <<>>, readable |-> TRUE, syntax_ok |-> TRUE,
      parse_exc |-> "none", error_line |-> None, nodes |-> <<>>, loc |-> loc,
      metrics_fail |-> FALSE, capture_ok |-> TRUE, capture_loc |-> cl] :
        loc \in {0, 50, 101}, cl \in {0, 50, 101}}
    \cup
    \* an empty file
    {[lint_runs |-> TRUE, lint |-> l, readable |-> TRUE, syntax_ok |-> TRUE,
      parse_exc |-> "none", error_line |-> None, nodes |-> <<>>, loc |-> 0,
      metrics_fail |-> FALSE, capture_ok |-> co, capture_loc |-> 0] :
        l \in {<<>>, <<Finding("error", 1)>>}, co \in BOOLEAN}
    \cup
    \* a file for which ast.parse raises has no tree
    {[lint_runs |-> TRUE, lint |-> l, readable |-> TRUE, syntax_ok |-> FALSE,
      parse_exc |-> pe, error_line |-> IF pe = "SyntaxError" THEN el ELSE None,
      nodes |-> <<>>, loc |-> loc, metrics_fail |-> FALSE, capture_ok |-> co,
      capture_loc |-> IF co THEN loc ELSE 0] :
        l \in LintOutputs, pe \in ParseExceptions, el \in {1, 3, 101, None},
        loc \in {50, 101}, co \in BOOLEAN}
    \cup
    \* a file that cannot be opened or read, and pylint missing
    {[lint_runs |-> lr, lint |-> l, readable |-> r, syntax_ok |-> TRUE,
      parse_exc |-> "none", error_line |-> None, nodes |-> <<>>, loc |-> 0,
      metrics_fail |-> FALSE, capture_ok |-> r, capture_loc |-> 0] :
        lr \in BOOLEAN, l \in {<<>>, <<Finding("error", 1)>>}, r \in BOOLEAN}

\* an issue of analyze_code
CodeIssue(type, fmt, args, line) ==
    [type |-> type, message |-> [fmt |-> fmt, args |-> args], line |-> line]

\* the deduction for a pylint finding
LintDeduction_flat(type) == 10

LintDeduction(type) ==
    IF type = "error" THEN 10 ELSE IF type = "warning" THEN 5 ELSE 2

\* not node.name.islower() or '_' not in node.name
FunctionNameFlagged(name) == ~islower(name) \/ ~Contains(name, <<95>> (* _ *))

\* not node.name.istitle()
ClassNameFlagged(name) == ~istitle(name)

\* score = max(0, score)
ClampScore_none(s) == s

ClampScore(s) == IF s > 0 THEN s ELSE 0

\* the blocks radon's cc_visit reports: the definitions of the file
Blocks(f) == SelectSeq(f.nodes, LAMBDA n :
                 n.kind \in {"FunctionDef", "AsyncFunctionDef", "ClassDef"})

CommandVarsUnchanged == UNCHANGED <<command, risk_level, last>>

\* the call: issues = [], suggestions = [], score = 100
CallAnalyzeCode(f) ==
    /\ pc = "idle"
    /\ filepath' = f
    /\ issues' = <<>>
    /\ suggestions' = <<>>
    /\ score' = 100
    /\ code' = "unbound"
    /\ idx' = 1
    /\ result' = <<>>
    /\ pc' = "lint_run"
    /\ CommandVarsUnchanged

\* subprocess.run(['pylint', ...]) and json.loads(result.stdout)
LintRun ==
    /\ pc = "lint_run"
    /\ IF ~filepath.lint_runs
       THEN /\ issues' = Append(issues,
                   CodeIssue("error", "Pylint failed: {str(e)}", <<>>, 0))
            /\ pc' = "read_file"
       ELSE /\ UNCHANGED issues
            /\ pc' = IF filepath.lint = <<>> THEN "read_file" ELSE "lint_loop"
    /\ idx' = 1
    /\ UNCHANGED <<suggestions, score, code, filepath, result>>
    /\ CommandVarsUnchanged

\* one iteration of `for issue in pylint_output`
LintStep ==
    /\ pc = "lint_loop"
    /\ LET type == filepath.lint[idx].type IN
       IF type = "<no type>"
       THEN \* issue['type'] raises KeyError: the except clause of the check
            /\ issues' = Append(issues,
                   CodeIssue("error", "Pylint failed: {str(e)}", <<>>, 0))
            /\ pc' = "read_file"
            /\ idx' = 1
            /\ UNCHANGED score
       ELSE /\ issues' = Append(issues,
                   CodeIssue(type, "{issue['message']}", <<>>,
                             filepath.lint[idx].line))
            /\ score' = score - LintDeduction(type)
            /\ IF idx < Len(filepath.lint)
               THEN idx' = idx + 1 /\ pc' = pc
               ELSE idx' = 1 /\ pc' = "read_file"
    /\ UNCHANGED <<suggestions, code, filepath, result>>
    /\ CommandVarsUnchanged

\* with open(filepath, 'r') as f: code = f.read()
ReadFile ==
    /\ pc = "read_file"
    /\ IF filepath.readable
       THEN /\ code' = "bound"
            /\ pc' = "cc_visit"
            /\ UNCHANGED issues
       ELSE /\ issues' = Append(issues,
                   CodeIssue("error", "Complexity analysis failed: {str(e)}", <<>>, 0))
            /\ pc' = "naming_parse"
            /\ UNCHANGED code
    /\ UNCHANGED <<suggestions, score, idx, filepath, result>>
    /\ CommandVarsUnchanged

\* complexity = radon_complexity.cc_visit(code); it parses code with
\* ast.parse and raises what ast.parse raises
ComplexityVisit ==
    /\ pc = "cc_visit"
    /\ IF ~filepath.syntax_ok
       THEN /\ issues' = Append(issues,
                   CodeIssue("error", "Complexity analysis failed: {str(e)}", <<>>, 0))
            /\ pc' = "naming_parse"
       ELSE /\ UNCHANGED issues
            /\ pc' = IF Blocks(filepath) = <<>> THEN "raw_metrics" ELSE "cc_loop"
    /\ idx' = 1
    /\ UNCHANGED <<suggestions, score, code, filepath, result>>
    /\ CommandVarsUnchanged

\* one iteration of `for func in complexity`
ComplexityStep ==
    /\ pc = "cc_loop"
    /\ LET func == Blocks(filepath)[idx] IN
       IF func.complexity > ComplexityLimit
       THEN /\ issues' = Append(issues,
                   CodeIssue("warning", "High complexity in {func.name}: {func.complexity}",
                             <<func.name>>, func.lineno))
            /\ score' = score - 5
            /\ suggestions' = Append(suggestions,
                   [fmt |-> "Refactor {func.name} to reduce complexity", args |-> <<func.name>>])
       ELSE UNCHANGED <<issues, score, suggestions>>
    /\ IF idx < Len(Blocks(filepath))
       THEN idx' = idx + 1 /\ pc' = pc
       ELSE idx' = 1 /\ pc' = "raw_metrics"
    /\ UNCHANGED <<code, filepath, result>>
    /\ CommandVarsUnchanged

\* raw_metrics = radon_metrics.raw_metrics(code) and the size test
RawMetrics ==
    /\ pc = "raw_metrics"
    /\ IF filepath.metrics_fail
       THEN /\ issues' = Append(issues,
                   CodeIssue("error", "Complexity analysis failed: {str(e)}", <<>>, 0))
            /\ UNCHANGED <<score, suggestions>>
       ELSE IF filepath.loc > LocLimit
       THEN /\ issues' = Append(issues,
                   CodeIssue("info", "File is quite long: {raw_metrics.loc} lines", <<>>, 0))
            /\ score' = score - 5
            /\ suggestions' = Append(suggestions,
                   [fmt |-> "Consider breaking down the file into smaller modules", args |-> <<>>])
       ELSE UNCHANGED <<issues, score, suggestions>>
    /\ pc' = "naming_parse"
    /\ UNCHANGED <<idx, code, filepath, result>>
    /\ CommandVarsUnchanged

\* tree = ast.parse(code), inside `try ... except SyntaxError`
NamingParse ==
    /\ pc = "naming_parse"
    /\ IF code = "unbound"
       THEN \* UnboundLocalError is not a SyntaxError: it leaves analyze_code
            /\ pc' = "raised"
            /\ UNCHANGED <<issues, score>>
       ELSE IF ~filepath.syntax_ok /\ filepath.parse_exc = "SyntaxError"
       THEN /\ issues' = Append(issues,
                   CodeIssue("error", "Syntax error: {str(e)}", <<>>,
                             filepath.error_line))
            /\ score' = score - SyntaxErrorPenalty
            /\ pc' = "clamp"
       ELSE IF ~filepath.syntax_ok
       THEN \* any other exception of ast.parse leaves analyze_code too
            /\ pc' = "raised"
            /\ UNCHANGED <<issues, score>>
       ELSE /\ UNCHANGED <<issues, score>>
            /\ pc' = IF filepath.nodes = <<>> THEN "clamp" ELSE "naming_loop"
    /\ idx' = 1
    /\ UNCHANGED <<suggestions, code, filepath, result>>
    /\ CommandVarsUnchanged

\* one iteration of `for node in ast.walk(tree)`
NamingStep ==
    /\ pc = "naming_loop"
    /\ LET node == filepath.nodes[idx] IN
       IF node.kind = "FunctionDef" /\ FunctionNameFlagged(node.name)
       THEN /\ issues' = Append(issues,
                   CodeIssue("warning",
                             "Function name {node.name} does not follow snake_case convention",
                             <<node.name>>, node.lineno))
            /\ score' = score - 2
            /\ suggestions' = Append(suggestions,
                   [fmt |-> "Rename {node.name} to follow snake_case", args |-> <<node.name>>])
       ELSE IF node.kind = "ClassDef" /\ ClassNameFlagged(node.name)
       THEN /\ issues' = Append(issues,
                   CodeIssue("warning",
                             "Class name {node.name} does not follow PascalCase convention",
                             <<node.name>>, node.lineno))
            /\ score' = score - 2
            /\ suggestions' = Append(suggestions,
                   [fmt |-> "Rename {node.name} to follow PascalCase", args |-> <<node.name>>])
       ELSE UNCHANGED <<issues, score, suggestions>>
    /\ IF idx < Len(filepath.nodes)
       THEN idx' = idx + 1 /\ pc' = pc
       ELSE idx' = 1 /\ pc' = "clamp"
    /\ UNCHANGED <<code, filepath, result>>
    /\ CommandVarsUnchanged

\* score = max(0, score)
Clamp ==
    /\ pc = "clamp"
    /\ score' = ClampScore(score)
    /\ pc' = "capture"
    /\ UNCHANGED <<issues, suggestions, idx, code, filepath, result>>
    /\ CommandVarsUnchanged

\* code_lines = f.read().splitlines() of the second open(), [] when it fails
CodeLines(f) ==
    IF f.capture_ok THEN [i \in 1..f.capture_loc |-> <<"line", i>>] ELSE <<>>

\* the returned dict
CodeResult ==
    [filename |-> "<basename of filepath>",
     issues |-> issues,
     score |-> score,
     suggestions |-> suggestions,
     code_lines |-> CodeLines(filepath),
     line_suggestions |-> <<>>]

CaptureAndReturn ==
    /\ pc = "capture"
    /\ result' = <<CodeResult>>
    /\ pc' = "code_done"
    /\ UNCHANGED <<issues, suggestions, score, idx, code, filepath>>
    /\ CommandVarsUnchanged

NextCode ==
    \/ pc = "idle" /\ \E f \in Files : CallAnalyzeCode(f)
    \/ LintRun
    \/ LintStep
    \/ ReadFile
    \/ ComplexityVisit
    \/ ComplexityStep
    \/ RawMetrics
    \/ NamingParse
    \/ NamingStep
    \/ Clamp
    \/ CaptureAndReturn

SpecCode == Init /\ [][NextCode]_vars

-----------------------------------------------------------------------------
(* Properties *)

\* the position of a tier in LOW < MEDIUM < HIGH < CRITICAL
TierRank(t) == CHOOSE i \in 1..Len(RiskTiers) : RiskTiers[i] = t

IsTier(t) == \E i \in 1..Len(RiskTiers) : RiskTiers[i] = t

TierLeq(t, u) == IsTier(t) /\ IsTier(u) /\ TierRank(t) <= TierRank(u)

\* the table entries the command matches, and their tiers
MatchedEntries(cmd) ==
    {i \in 1..Len(dangerous_patterns) :
        re_search(dangerous_patterns[i].pattern, cmd, TRUE)}

MatchedTiers(cmd) == {dangerous_patterns[i].risk : i \in MatchedEntries(cmd)}

\* C1: the score of every AnalysisResult returned by analyze_code is
\* between 0 and 100, whatever the three checks found.
C1_ScoreInRange ==
    pc = "code_done" => (result[1].score >= 0 /\ result[1].score <= 100)

\* a returned result whose deductions (eleven lint errors) exceed 100
C1_Witness ==
    /\ pc = "code_done"
    /\ Len(filepath.lint) >= 11
    /\ \A i \in 1..Len(filepath.lint) : filepath.lint[i].type = "error"
    /\ result[1].score = 0

\* C2: analyze_code never raises because of a failed check: a failed check
\* (the complexity check that cannot open the file included) leaves an error
\* issue, and the call goes on to return a result.
C2_NeverRaises == pc # "raised"

\* C3: for a command that matches at least one dangerous-pattern entry, the
\* returned risk_level is the maximum, in LOW < MEDIUM < HIGH < CRITICAL, of
\* the tiers of the matched entries.
C3_RiskIsMaxMatchedTier ==
    (pc = "done" /\ MatchedEntries(command) # {}) =>
        /\ result[1].risk_level \in MatchedTiers(command)
        /\ \A t \in MatchedTiers(command) : TierLeq(t, result[1].risk_level)

\* C4: within one analyze_command pass no step lowers risk_level in the
\* order LOW < MEDIUM < HIGH < CRITICAL.
C4_RiskNeverDecreases ==
    [][pc # "idle" => TierRank(risk_level') >= TierRank(risk_level)]_vars

\* the scan is over, a HIGH entry matched and a MEDIUM entry later in the
\* table matched too, and the level is still HIGH
C4_Witness ==
    /\ pc = "best_practices"
    /\ risk_level = "HIGH"
    /\ \E i, j \in MatchedEntries(command) :
          /\ i < j
          /\ dangerous_patterns[i].risk = "HIGH"
          /\ dangerous_patterns[j].risk = "MEDIUM"

\* C5: analyze_command never raises, and an exception raised inside the
\* syntax check (by the parser or by the checks after it) has become an
\* issue of the result that carries the exception's text.
C5_SyntaxFailuresBecomeIssues ==
    /\ pc # "raised"
    /\ (/\ pc \notin {"idle", "python_check"}
        /\ _looks_like_python(command)
        /\ SyntaxTryBody(command).exc # "none")
       => \E i \in 1..Len(issues) :
             /\ issues[i].type \in {"SYNTAX", "ERROR"}
             /\ issues[i].command_part = command
             /\ issues[i].message.args =
                    <<ExceptionText(command, SyntaxTryBody(command).exc)>>

\* a returned result for a command on which the checker raised IndexError
\* after a successful parse
C5_Witness ==
    /\ pc = "done"
    /\ _looks_like_python(command)
    /\ SyntaxTryBody(command).exc = "IndexError"
    /\ result[1].total_issues > 0

\* C6: a command that matches a CRITICAL entry gets risk level CRITICAL,
\* whatever else matches; "sudo rm -rf /" gets CRITICAL and a SECURITY
\* issue about combining sudo with rm -rf.
C6_CriticalWins ==
    pc = "done" =>
        /\ "CRITICAL" \in MatchedTiers(command)
              => result[1].risk_level = "CRITICAL"
        /\ command = <<115, 117, 100, 111, 32, 114, 109, 32, 45, 114, 102, 32, 47>> (* sudo rm -rf / *)
              => /\ result[1].risk_level = "CRITICAL"
                 /\ \E i \in 1..Len(result[1].issues) :
                       /\ result[1].issues[i].type = "SECURITY"
                       /\ result[1].issues[i].message.fmt =
                              "Combining sudo with rm -rf is extremely dangerous"

\* a returned result for a command that matches a CRITICAL entry and, later
\* in the table, a HIGH one
C6_Witness ==
    /\ pc = "done"
    /\ result[1].risk_level = "CRITICAL"
    /\ \E i, j \in MatchedEntries(command) :
          /\ i < j
          /\ dangerous_patterns[i].risk = "CRITICAL"
          /\ dangerous_patterns[j].risk = "HIGH"

\* the single issue of a failed parse
ParseFailureIssue(type, fmt) ==
    [type |-> type, risk |-> "MEDIUM",
     message |-> [fmt |-> fmt, args |-> <<ast_parse_error(command)>>],
     command_part |-> command]

\* C7 as stated: when the source does not parse, the syntax checker returns
\* exactly one issue: kind SYNTAX, risk MEDIUM, the parser's error text in
\* the message and the whole source as command_part; it does not raise.
C7_Original ==
    /\ pc # "raised"
    /\ (/\ pc = "dangerous" /\ idx = 1
        /\ _looks_like_python(command)
        /\ ast_parse(command) # "ok")
       => issues = <<ParseFailureIssue("SYNTAX", "Syntax error: {str(e)}")>>

\* C7, amended: when the parser fails on the source, the syntax checker
\* returns exactly one issue, of risk MEDIUM, with the parser's error text in
\* the message and the whole source as command_part, and does not raise; the
\* kind is SYNTAX when the parser raised SyntaxError and ERROR when it raised
\* another exception.
C7_ParseFailureOneSyntaxIssue ==
    /\ pc # "raised"
    /\ (/\ pc = "dangerous" /\ idx = 1
        /\ _looks_like_python(command)
        /\ ast_parse(command) # "ok")
       => issues =
            IF ast_parse(command) = "SyntaxError"
            THEN <<ParseFailureIssue("SYNTAX", "Syntax error: {str(e)}")>>
            ELSE <<ParseFailureIssue("ERROR", "Python parsing error: {str(e)}")>>

\* the checker has just run on "print x", which does not parse
C7_Witness ==
    /\ pc = "dangerous" /\ idx = 1
    /\ command = <<112, 114, 105, 110, 116, 32, 120>> (* print x *)
    /\ ast_parse(command) = "SyntaxError"
    /\ Len(issues) = 1

\* the TYPO issues of a result that name typo t
TypoIssues(r, t) ==
    {i \in 1..Len(r.issues) :
        r.issues[i].type = "TYPO" /\ r.issues[i].command_part = t}

\* C8: for every key of the typo table that is a substring of the command,
\* the result holds exactly one TYPO issue, of risk LOW, that names the typo
\* and its correction ("cd .." for "cd.."), whatever else was found.
C8_OneTypoIssuePerTypo ==
    pc = "done" =>
        \A k \in 1..Len(common_typos) :
            LET e == common_typos[k] IN
            Contains(command, e.typo) =>
                /\ Cardinality(TypoIssues(result[1], e.typo)) = 1
                /\ \A i \in TypoIssues(result[1], e.typo) :
                      /\ result[1].issues[i].risk = "LOW"
                      /\ result[1].issues[i].message.args = <<e.typo, e.correction>>
                      /\ e.typo = <<99, 100, 46, 46>> (* cd.. *) => e.correction = <<99, 100, 32, 46, 46>> (* cd .. *)

\* a returned result with the "cd.." typo next to a syntax issue and a
\* security issue
C8_Witness ==
    /\ pc = "done"
    /\ Contains(command, <<99, 100, 46, 46>> (* cd.. *))
    /\ Cardinality(TypoIssues(result[1], <<99, 100, 46, 46>> (* cd.. *))) = 1
    /\ \E i \in 1..Len(result[1].issues) : result[1].issues[i].type = "SECURITY"
    /\ \E i \in 1..Len(result[1].issues) : result[1].issues[i].type = "SYNTAX"

\* a name with an uppercase letter is not lowercase-with-underscores
HasUpper(name) == \E i \in 1..Len(name) : IsUpperCh(name[i])

\* the function definitions of the file with such a name: def statements
\* and async def statements
BadDefs(f) ==
    {i \in 1..Len(f.nodes) :
        /\ f.nodes[i].kind \in {"FunctionDef", "AsyncFunctionDef"}
        /\ HasUpper(f.nodes[i].name)}

SnakeWarnings(r, name) ==
    {i \in 1..Len(r.issues) :
        /\ r.issues[i].type = "warning"
        /\ r.issues[i].message.fmt =
               "Function name {node.name} does not follow snake_case convention"
        /\ r.issues[i].message.args = <<name>>}

SnakeRenames(r, name) ==
    {i \in 1..Len(r.suggestions) :
        /\ r.suggestions[i].fmt = "Rename {node.name} to follow snake_case"
        /\ r.suggestions[i].args = <<name>>}

\* C9: in a file that parses, every function definition whose name is not
\* lowercase-with-underscores gets one snake_case warning and one rename
\* suggestion and costs 2 points: with one such function the score is at
\* most 98.
C9_NonSnakeFunctionsWarned ==
    (pc = "code_done" /\ filepath.syntax_ok) =>
        /\ \A d \in BadDefs(filepath) :
              LET name == filepath.nodes[d].name
                  same == {i \in BadDefs(filepath) : filepath.nodes[i].name = name}
              IN  /\ Cardinality(SnakeWarnings(result[1], name)) = Cardinality(same)
                  /\ Cardinality(SnakeRenames(result[1], name)) = Cardinality(same)
        /\ LET rest == 100 - 2 * Cardinality(BadDefs(filepath))
           IN  result[1].score <= IF rest > 0 THEN rest ELSE 0

\* C10: a second analyze_command call with the string of the call before
\* it returns the same result in every field.
C10_SameCommandSameResult ==
    (pc = "done" /\ last # <<>> /\ last[1].command = command) => result = last

\* the second of two calls on the same string has returned, with issues and
\* suggestions in its result
C10_Witness ==
    /\ pc = "done"
    /\ last # <<>>
    /\ last[1].command = command
    /\ result[1].total_issues > 0
    /\ result[1].total_suggestions > 0

\* the indentation of a line, and the lines without text
Indent(line) == Len(line) - Len(lstrip(line))

IsBlank(line) == strip(line) = <<>>

IsTripleQuoted(line) ==
    startswith(strip(line), <<34, 34, 34>> (* """ *)) \/ startswith(strip(line), <<39, 39, 39>> (* ''' *))

\* header line i is documented: a triple-quoted string comes in the lines
\* after it before the indentation is back at the header's level
RECURSIVE DocumentedFrom(_, _, _)
DocumentedFrom(lines, i, j) ==
    IF j > Len(lines) THEN FALSE
    ELSE IF IsBlank(lines[j]) THEN DocumentedFrom(lines, i, j + 1)
    ELSE IF Indent(lines[j]) <= Indent(lines[i]) THEN FALSE
    ELSE IF IsTripleQuoted(lines[j]) THEN TRUE
    ELSE DocumentedFrom(lines, i, j + 1)

\* the header lines that lack a docstring
UndocumentedHeaders(lines) ==
    {i \in 1..Len(lines) : IsHeader(lines[i]) /\ ~DocumentedFrom(lines, i, i + 1)}

\* the number of lines of a text
LineCount(text) == Len(SplitLines(text))

\* C11: the corrector adds the 3-line placeholder docstring only after the
\* def/class header lines that lack a docstring; a documented header gets
\* none.
C11_PlaceholderOnlyWhenUndocumented ==
    (pc = "done" /\ result[1].is_code) =>
        LineCount(result[1].corrected_code) =
            LineCount(command) + 3 * Cardinality(UndocumentedHeaders(SplitLines(command)))

\* the findings of analyze_code, told apart by their message
ComplexityFailed(issue) ==
    issue.message.fmt = "Complexity analysis failed: {str(e)}"

FromComplexityCheck(issue) ==
    issue.message.fmt \in {"Complexity analysis failed: {str(e)}",
                           "High complexity in {func.name}: {func.complexity}",
                           "File is quite long: {raw_metrics.loc} lines"}

\* the fixed deduction of a finding
IssueDeduction(issue) ==
    LET fmt == issue.message.fmt IN
    CASE fmt = "{issue['message']}" ->
             (IF issue.type = "error" THEN 10
              ELSE IF issue.type = "warning" THEN 5 ELSE 2)
      [] fmt = "High complexity in {func.name}: {func.complexity}" -> 5
      [] fmt = "File is quite long: {raw_metrics.loc} lines" -> 5
      [] fmt = "Function name {node.name} does not follow snake_case convention" -> 2
      [] fmt = "Class name {node.name} does not follow PascalCase convention" -> 2
      [] fmt = "Syntax error: {str(e)}" -> 20
      [] OTHER -> 0

\* the sum of the deductions of the findings from position i on, those of
\* the complexity & size check left out when skip is TRUE
RECURSIVE SumDeductions(_, _, _)
SumDeductions(list, i, skip) ==
    IF i > Len(list) THEN 0
    ELSE (IF skip /\ FromComplexityCheck(list[i]) THEN 0
          ELSE IssueDeduction(list[i]))
             + SumDeductions(list, i + 1, skip)

Max0(n) == IF n > 0 THEN n ELSE 0

\* C12: when the complexity & size check fails, it contributes exactly one
\* error issue and no deduction: the returned score holds the deductions of
\* the other two checks only.
C12_FailedComplexityCheckDeductsNothing ==
    (/\ pc = "code_done"
     /\ \E i \in 1..Len(result[1].issues) : ComplexityFailed(result[1].issues[i]))
    => /\ Cardinality({i \in 1..Len(result[1].issues) :
                          ComplexityFailed(result[1].issues[i])}) = 1
       /\ result[1].score =
              Max0(100 - SumDeductions(result[1].issues, 1, TRUE))

\* C13: on a file with a syntax error the naming walk contributes one error
\* issue with the line number and 20 points, and the other checks still
\* contribute their findings: a file of more than 100 lines still gets its
\* info issue, its 5 points and its suggestion.
C13_SyntaxErrorShortCircuitsNamingOnly ==
    (pc = "code_done" /\ filepath.parse_exc = "SyntaxError") =>
        /\ Cardinality({i \in 1..Len(result[1].issues) :
               /\ result[1].issues[i].type = "error"
               /\ result[1].issues[i].message.fmt = "Syntax error: {str(e)}"
               /\ result[1].issues[i].line = filepath.error_line}) = 1
        /\ filepath.loc > LocLimit =>
              /\ \E i \in 1..Len(result[1].issues) :
                    /\ result[1].issues[i].type = "info"
                    /\ result[1].issues[i].message.fmt =
                           "File is quite long: {raw_metrics.loc} lines"
              /\ \E i \in 1..Len(result[1].suggestions) :
                    result[1].suggestions[i].fmt =
                        "Consider breaking down the file into smaller modules"

\* C14: the returned score is max(0, 100 - D), D the sum of the fixed
\* deductions of the findings: 10, 5 or 2 per lint finding by type, 5 per
\* function over the complexity limit, 5 for a long file, 2 per naming
\* violation, 20 for a syntax error, and nothing for the error issue of a
\* failed check.
C14_ScoreIsHundredMinusDeductions ==
    pc = "code_done" =>
        result[1].score = Max0(100 - SumDeductions(result[1].issues, 1, FALSE))

HasFinding(r, fmt) ==
    \E i \in 1..Len(r.issues) : r.issues[i].message.fmt = fmt

\* a returned result with a lint finding of each type, a complex function,
\* a long file and a naming violation
C14_Witness ==
    /\ pc = "code_done"
    /\ filepath.lint = <<Finding("error", 7), Finding("warning", 7), Finding("convention", 3)>>
    /\ HasFinding(result[1], "High complexity in {func.name}: {func.complexity}")
    /\ HasFinding(result[1], "File is quite long: {raw_metrics.loc} lines")
    /\ HasFinding(result[1], "Function name {node.name} does not follow snake_case convention")
    /\ result[1].score < 100

\* C15: the three tables are matched without regard to letter case: a
\* command that contains a typo key in any letter case gets its TYPO issue.
C15_TyposMatchedCaseInsensitively ==
    pc = "done" =>
        \A k \in 1..Len(common_typos) :
            Contains(lower(command), lower(common_typos[k].typo))
                => TypoIssues(result[1], common_typos[k].typo) # {}

\* C16: the risk of every issue and the overall risk_level of a result are
\* among LOW, MEDIUM, HIGH, CRITICAL, and so is the tier of every entry of
\* the dangerous-pattern table.
C16_RisksAreTiers ==
    pc = "done" =>
        /\ IsTier(result[1].risk_level)
        /\ \A i \in 1..Len(result[1].issues) : IsTier(result[1].issues[i].risk)
        /\ \A k \in 1..Len(dangerous_patterns) : IsTier(dangerous_patterns[k].risk)

\* names made of lowercase letters only
AllLowerLetters(name) ==
    name # <<>> /\ \A i \in 1..Len(name) : IsLowerCh(name[i])

\* C17: a function whose name is made of lowercase letters only (main, run)
\* gets no snake_case warning, no 2-point deduction and no rename
\* suggestion.
C17_LowercaseNamesNotFlagged ==
    (pc = "code_done" /\ filepath.syntax_ok) =>
        \A d \in 1..Len(filepath.nodes) :
            (/\ filepath.nodes[d].kind = "FunctionDef"
             /\ AllLowerLetters(filepath.nodes[d].name))
            => /\ SnakeWarnings(result[1], filepath.nodes[d].name) = {}
               /\ SnakeRenames(result[1], filepath.nodes[d].name) = {}

\* the place of an issue in discovery order: 0 for the syntax check, then
\* the dangerous-pattern entries, then the typo keys
IssuePlace(issue) ==
    IF issue.type \in {"SYNTAX", "ERROR"} THEN 0
    ELSE IF issue.type = "SECURITY"
    THEN CHOOSE k \in 1..Len(dangerous_patterns) :
             dangerous_patterns[k].message = issue.message.fmt
    ELSE Len(dangerous_patterns)
             + (CHOOSE k \in 1..Len(common_typos) :
                    common_typos[k].typo = issue.command_part)

\* the suggestions in discovery order
SuggestionOrder ==
    [k \in 1..Len(best_practices) |-> best_practices[k].suggestion] \o
    <<"Verify if sudo is necessary for this command",
      "Consider breaking complex piped commands into separate steps for clarity",
      "Command is quite long - consider using a script for complex operations">>

SuggestionPlace(s) == CHOOSE k \in 1..Len(SuggestionOrder) : SuggestionOrder[k] = s

\* C18: the issues of a result are the syntax-check issues, then the
\* SECURITY issues in table order, then the TYPO issues in typo-table order;
\* the suggestions are the best-practice ones in table order, then the sudo,
\* the pipeline and the length suggestion.
C18_DiscoveryOrder ==
    pc = "done" =>
        /\ \A i, j \in 1..Len(result[1].issues) :
              i < j =>
                  LET a == IssuePlace(result[1].issues[i])
                      b == IssuePlace(result[1].issues[j])
                  IN  a <= b /\ (b = 0 \/ a < b)
        /\ \A i, j \in 1..Len(result[1].suggestions) :
              i < j => SuggestionPlace(result[1].suggestions[i])
                           < SuggestionPlace(result[1].suggestions[j])

\* a returned result with a syntax, a security and a typo issue, and a
\* best-practice, the sudo and the pipeline suggestion
C18_Witness ==
    /\ pc = "done"
    /\ \E i \in 1..Len(result[1].issues) : result[1].issues[i].type = "SYNTAX"
    /\ \E i \in 1..Len(result[1].issues) : result[1].issues[i].type = "SECURITY"
    /\ \E i \in 1..Len(result[1].issues) : result[1].issues[i].type = "TYPO"
    /\ result[1].total_suggestions >= 3

=============================================================================
